---- MODULE Spec2Model ----
(***************************************************************************)
(* State-machine model of the image-finder service (nik-ti/image-finder):  *)
(* the request handler find_image, the fallback pipeline                   *)
(* _find_image_internal / _try_generic_fallback, the result cache, the     *)
(* candidate collector, the vision evaluator, the image processor and the  *)
(* image storage.                                                          *)
(*                                                                         *)
(* External services (scraper, search provider, vision model, HTTP probes, *)
(* the disk) are the environment: each call draws its answer from a small  *)
(* set with \E.  One request is in flight at a time; pc is the position of *)
(* its task, and every action runs from one suspension point (await) to    *)
(* the next.                                                               *)
(***************************************************************************)
EXTENDS Integers, Sequences, FiniteSets, TLC

VARIABLES
    pc,             \* position of the request task
    req,            \* the ImageRequest being served
    served,         \* number of requests received so far
    now,            \* wall clock, in days
    cache,          \* CacheManager._cache : key -> entry
    persisted,      \* contents of the cache file
    outcome,        \* what the caller of find_image receives
    image_urls,     \* the list handed to the evaluator (collected or searched)
    shortlist,      \* evaluations the processing loop has still to try
    blind_left,     \* raw generic results the blind loop has still to try
    attempt,        \* perplexity_attempt / generic attempt
    strategies,     \* history: the strategies this request has started, in order
    hist,           \* history: counts of the calls this request has made
    call,           \* history: the latest call of a component, with its arguments
    tasks           \* concurrent callers of the cache: what each has in hand

vars == <<pc, req, served, now, cache, persisted, outcome, image_urls,
          shortlist, blind_left, attempt, strategies, hist, call, tasks>>

----------------------------------------------------------------------------
(* Bounds of the model *)

MaxRequests == 1
MaxNow == 8
MaxInputs == 22
MaxSide == 4001
MaxClients == 2

(* Program constants *)

CacheMaxAgeDays == 7
MinCandidates == 5
MaxProbed == 20
MaxAnalyzed == 5
DefaultMinRelevance == 8
RelaxedMinRelevance == 6
MaxDimension == 1280
MinImageSize == 1000
BlindQualityScore == 5
FallbackQualityScore == 1
MaxPerplexityAttempts == 2
MaxGenericAttempts == 2
DefaultRetryAttempt == 1
ScoreMin == 1
ScoreMax == 10
HttpOk == 200
HttpInternalError == 500
HttpGatewayTimeout == 504

None == "None"

----------------------------------------------------------------------------
(* Sequence helpers *)

Range(s) == {s[i] : i \in 1..Len(s)}

Take(s, n) == SubSeq(s, 1, IF Len(s) < n THEN Len(s) ELSE n)

RECURSIVE FilterSeq(_, _)
FilterSeq(s, keep) ==
    IF s = <<>> THEN <<>>
    ELSE IF Head(s) \in keep THEN <<Head(s)>> \o FilterSeq(Tail(s), keep)
         ELSE FilterSeq(Tail(s), keep)

----------------------------------------------------------------------------
(* URLs.  A URL is a record: host and file name, the extension of its path *)
(* and, for files written by ImageStorage, the unique id of the file       *)
(* (<<0, 0>> for every other URL).                                         *)

NoUid == <<0, 0>>

Url(h, n, e) == [host |-> h, name |-> n, ext |-> e, uid |-> NoUid]

UserA    == Url("cdn",  "a", "jpg")
ScrapedS == Url("site", "s", "jpg")
ScrapedT == Url("cdn",  "t", "svg")
SearchP  == Url("cdn",  "p", "jpg")
GenericG == Url("cdn",  "g", "jpg")
GenericH == Url("cdn",  "h", "png")

PublicHost == "public"
DefaultFallbackImage == Url("placeholder", "default", "none")

(* Requests the model serves: user images only, a source URL only,        *)
(* neither.                                                                *)
Request(t, r, src, isNone, imgs) ==
    [title |-> t, research |-> r, source_url |-> src,
     images_is_none |-> isNone, images |-> imgs]

Requests ==
    { Request(<<"t1">>, <<"r">>, None,   FALSE, <<UserA>>),
      Request(<<"t2">>, <<"r">>, "site", TRUE,  <<>>),
      Request(<<"t3">>, <<"r">>, None,   TRUE,  <<>>) }

NoRequest == Request(<<>>, <<>>, None, TRUE, <<>>)

Truthy(s) == s # None /\ s # ""

----------------------------------------------------------------------------
(* utils.generate_cache_key: the text                                      *)
(*   f"{title}|{research}|{source_url or ''}|{str(images or [])}"          *)
(* as a sequence of tokens.  sha256 is taken as injective, so the key is   *)
(* the text itself.                                                        *)

UrlStr(u) == <<u.host, "/", u.name, ".", u.ext>>

RECURSIVE StrList(_)
StrList(l) ==
    IF l = <<>> THEN <<>>
    ELSE <<"'">> \o UrlStr(Head(l)) \o <<"'">>
         \o (IF Tail(l) = <<>> THEN <<>> ELSE <<", ">> \o StrList(Tail(l)))

generate_cache_key(title, research, source_url, images) ==
    title \o <<"|">> \o research \o <<"|">>
    \o (IF Truthy(source_url) THEN <<source_url>> ELSE <<>>)
    \o <<"|">> \o <<"[">> \o StrList(images) \o <<"]">>

KeyOf(r) == generate_cache_key(r.title, r.research, r.source_url, r.images)

----------------------------------------------------------------------------
(* models.ImageResponse.  The call sites pass keyword arguments as a       *)
(* record; validation requires image_found (declared Field(...), with no   *)
(* default) and quality_score in 1..10, fills cached with its default and  *)
(* ignores keys that are not fields of the model.                          *)

ResponseFields ==
    {"image_found", "image_url", "original_url", "tool_used",
     "image_description", "format", "dimensions", "quality_score",
     "temporal_relevance", "watermark_status", "cached"}

RequiredResponseFields == {"image_found"}

ValidationError ==
    [type |-> "ValidationError", status |-> 0,
     detail |-> <<"1 validation error for ImageResponse: image_found: Field required">>]

NoException == [type |-> "none", status |-> 0, detail |-> <<>>]

ImageResponseValid(kwargs) ==
    /\ RequiredResponseFields \subseteq DOMAIN kwargs
    /\ kwargs.quality_score \in ScoreMin..ScoreMax

(* The validated model (model_dump): kwargs restricted to the fields.      *)
ImageResponse(kwargs) ==
    [f \in ResponseFields |-> kwargs[f]]

----------------------------------------------------------------------------
(* Exceptions, and what find_image turns them into.                        *)

Exception(t, st, d) == [type |-> t, status |-> st, detail |-> d]

HTTPException(st, d) == Exception("HTTPException", st, d)

(* str(e): starlette's HTTPException prints "<status>: <detail>".          *)
Str(e) ==
    IF e.type = "HTTPException" THEN <<ToString(e.status), ": ">> \o e.detail
    ELSE e.detail

(* main.py:119-121, the handler of asyncio.TimeoutError.                   *)
TimeoutHandler == HTTPException(HttpGatewayTimeout, <<"Request timeout">>)

(* main.py:123-125, the handler of Exception around the whole body of      *)
(* find_image; it also encloses the raise of the timeout handler, and      *)
(* HTTPException is an Exception.                                          *)
OuterHandler(e) == HTTPException(HttpInternalError, Str(e))

(* main.py:278-281 *)
ExhaustionError ==
    HTTPException(HttpInternalError,
        <<"Unable to find any image after exhaustive search including generic fallback.">>)

NoOutcome == [kind |-> "none", status |-> 0, body |-> <<>>, detail |-> <<>>]

ResponseOutcome(resp) ==
    [kind |-> "response", status |-> HttpOk, body |-> <<resp>>, detail |-> <<>>]

ErrorOutcome(e) ==
    [kind |-> "error", status |-> e.status, body |-> <<>>, detail |-> e.detail]

----------------------------------------------------------------------------
(* cache_manager.CacheManager *)

Without(c, key) == [k \in DOMAIN c \ {key} |-> c[k]]

With(c, key, entry) ==
    [k \in DOMAIN c \cup {key} |-> IF k = key THEN entry ELSE c[k]]

(* An age test that lets an entry live one day longer.                    *)
Expired_Lenient(entry, t) == t - entry.cached_at > CacheMaxAgeDays + 1

Expired(entry, t) == t - entry.cached_at > CacheMaxAgeDays

(* CacheManager.get that leaves the cached flag of a hit as it finds it.   *)
CacheGet_NoFlag(c, p, key, t, reachable) ==
    IF key \notin DOMAIN c
    THEN [hit |-> FALSE, cache |-> c, persisted |-> p]
    ELSE IF (t - c[key].cached_at > CacheMaxAgeDays) \/ ~reachable
    THEN [hit |-> FALSE, cache |-> Without(c, key), persisted |-> Without(c, key)]
    ELSE [hit |-> TRUE, cache |-> c, persisted |-> p]

(* CacheManager.get that empties the cache when it evicts.                 *)
CacheGet_ClearsAll(c, p, key, t, reachable) ==
    IF key \notin DOMAIN c
    THEN [hit |-> FALSE, cache |-> c, persisted |-> p]
    ELSE IF (t - c[key].cached_at > CacheMaxAgeDays) \/ ~reachable
    THEN [hit |-> FALSE, cache |-> <<>>, persisted |-> <<>>]
    ELSE [hit |-> TRUE, cache |-> With(c, key, [c[key] EXCEPT !.cached = TRUE]),
          persisted |-> p]

(* CacheManager.get without the test of the entry's age.                   *)
CacheGet_NoExpiry(c, p, key, t, reachable) ==
    IF key \notin DOMAIN c
    THEN [hit |-> FALSE, cache |-> c, persisted |-> p]
    ELSE IF reachable
    THEN [hit |-> TRUE, cache |-> With(c, key, [c[key] EXCEPT !.cached = TRUE]),
          persisted |-> p]
    ELSE [hit |-> FALSE, cache |-> Without(c, key), persisted |-> Without(c, key)]

(* CacheManager.get, given the answer of the HEAD probe of the stored      *)
(* image URL: the lookup's result and the mapping and the file after it.   *)
(* A hit sets the cached flag in the mapping's own entry and does not      *)
(* save; an eviction deletes the entry and saves the whole mapping.        *)
CacheGet(c, p, key, t, reachable) ==
    IF key \notin DOMAIN c
    THEN [hit |-> FALSE, cache |-> c, persisted |-> p]
    ELSE IF Expired(c[key], t)
    THEN [hit |-> FALSE, cache |-> Without(c, key), persisted |-> Without(c, key)]
    ELSE IF reachable
    THEN [hit |-> TRUE, cache |-> With(c, key, [c[key] EXCEPT !.cached = TRUE]),
          persisted |-> p]
    ELSE [hit |-> FALSE, cache |-> Without(c, key), persisted |-> Without(c, key)]

(* CacheManager.set: stamps the result and stores it under the key.        *)
CacheEntry(result, t) ==
    [f \in ResponseFields \cup {"cached_at"} |->
        IF f = "cached_at" THEN t ELSE result[f]]

CacheSet(c, key, result, t) == With(c, key, CacheEntry(result, t))

(* The cache file found at start-up: dumps of valid Responses, one a day   *)
(* older than the other.                                                   *)
StoredUrl(uid) == [host |-> PublicHost, name |-> "stored", ext |-> "jpg", uid |-> uid]

SeedResponse(orig, tool) ==
    [image_found |-> TRUE, image_url |-> StoredUrl(<<0, 1>>), original_url |-> orig,
     tool_used |-> tool, image_description |-> "seed", format |-> "jpeg",
     dimensions |-> "1280x720", quality_score |-> 9,
     temporal_relevance |-> "current", watermark_status |-> "none",
     cached |-> FALSE]

InitialCache ==
    LET k1 == KeyOf(Request(<<"t1">>, <<"r">>, None, FALSE, <<UserA>>))
        k2 == KeyOf(Request(<<"t2">>, <<"r">>, "site", TRUE, <<>>))
        e1 == CacheEntry(SeedResponse(UserA, "candidate"), 0)
        e2 == CacheEntry(SeedResponse(ScrapedS, "site"), 1)
    IN (k1 :> e1) @@ (k2 :> e2)

----------------------------------------------------------------------------
(* image_collector.ImageCollector.collect_all *)

(* Answers of a channel: a list of URLs, or a timeout / exception, which   *)
(* collect_all catches and which adds nothing.                             *)
ChannelOk(l) == [failed |-> FALSE, images |-> l]
ChannelFailed == [failed |-> TRUE, images |-> <<>>]

ScrapeAnswers ==
    {ChannelFailed, ChannelOk(<<>>), ChannelOk(<<ScrapedS>>),
     ChannelOk(<<ScrapedT, ScrapedS>>)}

SearchAnswers ==
    {ChannelOk(<<>>), ChannelOk(<<SearchP>>), ChannelOk(<<ScrapedS, SearchP, SearchP>>)}

(* A retry's search_perplexity and search_perplexity_generic catch their   *)
(* own failures, so their answer is always a list.                         *)
RetryAnswers == {<<>>, <<SearchP>>}

GenericAnswers == {<<>>, <<GenericG, GenericH>>}

(* A collector that returns all_images as gathered.                        *)
Dedup_None(l, seen) == l

(* image_collector.py:72-78 *)
RECURSIVE Dedup(_, _)
Dedup(l, seen) ==
    IF l = <<>> THEN <<>>
    ELSE IF Head(l) \in seen THEN Dedup(Tail(l), seen)
         ELSE <<Head(l)>> \o Dedup(Tail(l), seen \cup {Head(l)})

(* What the scrape channel adds: nothing when the request has no          *)
(* source_url or the scrape failed.                                        *)
ScrapedList(r, scraped) ==
    IF Truthy(r.source_url) /\ ~scraped.failed THEN scraped.images ELSE <<>>

(* The candidates gathered before the search channel is consulted.         *)
BeforeSearch(r, scraped) == r.images \o ScrapedList(r, scraped)

(* A collector that counts the distinct candidates.                        *)
SearchNeeded_Distinct(r, scraped) ==
    Cardinality(Range(BeforeSearch(r, scraped))) < MinCandidates

(* image_collector.py:59 *)
SearchNeeded(r, scraped) == Len(BeforeSearch(r, scraped)) < MinCandidates

(* A collector whose search is given up after a failed scrape.             *)
SearchedList_AfterScrapeOnly(r, scraped, searched) ==
    IF SearchNeeded(r, scraped) /\ ~searched.failed
       /\ ~(Truthy(r.source_url) /\ scraped.failed)
    THEN searched.images ELSE <<>>

(* What the search channel adds: nothing when it was not consulted or      *)
(* failed.                                                                 *)
SearchedList(r, scraped, searched) ==
    IF SearchNeeded(r, scraped) /\ ~searched.failed THEN searched.images ELSE <<>>

(* all_images, before the duplicates are removed.                          *)
Gathered(r, scraped, searched) ==
    BeforeSearch(r, scraped) \o SearchedList(r, scraped, searched)

collect_all(r, scraped, searched) == Dedup(Gathered(r, scraped, searched), {})

----------------------------------------------------------------------------
(* vision_analyzer.VisionAnalyzer *)

SupportedExtensions == {"png", "jpg", "jpeg", "gif", "webp"}

(* One entry of the response array.  has_index tells whether the entry     *)
(* carries the key image_index.                                            *)
Item(idx, score, wm, ad, q, rel, outd) ==
    [has_index |-> TRUE, image_index |-> idx, relevance_score |-> score,
     temporal_relevance |-> "current", watermark_severity |-> wm,
     ad_presence |-> ad, content_quality |-> q,
     is_relevant_to_event |-> rel, contains_outdated_info |-> outd,
     reasoning |-> "r"]

(* Verdicts the vision model may give on one image.                        *)
Verdicts(idx) ==
    { Item(idx, 9, "none", "none", "high", TRUE, FALSE),
      Item(idx, 8, "minimal", "none", "low", TRUE, FALSE),
      Item(idx, 7, "none", "minimal", "high", TRUE, FALSE),
      Item(idx, 6, "none", "none", "medium", TRUE, FALSE),
      Item(idx, 9, "heavy", "none", "high", TRUE, FALSE),
      Item(idx, 9, "none", "intrusive", "high", TRUE, FALSE),
      Item(idx, 9, "none", "none", "high", FALSE, FALSE),
      Item(idx, 9, "none", "none", "high", TRUE, TRUE) }

(* Answers of the AI call for n submitted images: an array with one entry  *)
(* per image, an API error (quota or other), or text that is not JSON.     *)
RECURSIVE ItemArrays(_)
ItemArrays(n) ==
    IF n = 0 THEN {<<>>}
    ELSE {Append(a, v) : a \in ItemArrays(n - 1), v \in Verdicts(n - 1)}

QuotaText == "Error code: 429 - insufficient_quota"
QuotaTexts == {QuotaText, "[Errno 122] Disk quota exceeded"}

(* The text of a response, as its lines: a JSON array (one unit, whatever  *)
(* its layout), a line that opens or closes a markdown fence, or prose.    *)
Line(kind, items) == [kind |-> kind, items |-> items]

Plain(items) == <<Line("array", items)>>
Fenced(items) == <<Line("fence", <<>>), Line("array", items), Line("fence", <<>>)>>
FencedOpen(items) == <<Line("fence", <<>>), Line("array", items)>>
Prose == <<Line("prose", <<>>)>>

(* What the AI call gives: a response with this text, or an exception.     *)
Responds(text) == [kind |-> "text", text |-> text, error |-> NoException]
Raises(e) == [kind |-> "raises", text |-> <<>>, error |-> e]

AiAnswers(n) ==
    {Responds(Plain(a)) : a \in ItemArrays(n)}
    \cup {Responds(Prose),
          Raises(Exception("RateLimitError", 0, <<QuotaText>>)),
          Raises(Exception("APIConnectionError", 0, <<"Connection error.">>))}

ImageEvaluation(url, item) ==
    [image_url |-> url, relevance_score |-> item.relevance_score,
     temporal_relevance |-> item.temporal_relevance,
     watermark_severity |-> item.watermark_severity,
     ad_presence |-> item.ad_presence,
     content_quality |-> item.content_quality,
     is_relevant_to_event |-> item.is_relevant_to_event,
     contains_outdated_info |-> item.contains_outdated_info,
     reasoning |-> item.reasoning]

(* _parse_evaluations: entries are converted in order; an entry is         *)
(* attached to image_urls[image_index], and skipped when the index is not  *)
(* one of the list; an entry that fails validation ends the loop and the   *)
(* entries converted before it are returned.                               *)
RECURSIVE ParseItems(_, _)
ParseItems(items, urls) ==
    IF items = <<>> THEN <<>>
    ELSE LET it == Head(items)
             idx == IF it.has_index THEN it.image_index ELSE 0
         IN IF idx < Len(urls)
            THEN IF it.relevance_score \notin ScoreMin..ScoreMax THEN <<>>
                 ELSE <<ImageEvaluation(urls[idx + 1], it)>>
                      \o ParseItems(Tail(items), urls)
            ELSE ParseItems(Tail(items), urls)

(* vision_analyzer.py:179-182: a text that starts with a fence loses its   *)
(* first and its last line.                                                *)
StripFence(text) ==
    IF text # <<>> /\ text[1].kind = "fence"
    THEN SubSeq(text, 2, Len(text) - 1)
    ELSE text

(* json.loads: <<data>>, or <<>> for a JSONDecodeError.                    *)
json_loads(text) ==
    IF Len(text) = 1 /\ text[1].kind = "array" THEN <<text[1].items>> ELSE <<>>

_parse_evaluations(answer, urls) ==
    LET data == json_loads(StripFence(answer.text)) IN
    IF data = <<>> THEN <<>> ELSE ParseItems(data[1], urls)

QualityOrder(q) ==
    CASE q = "high" -> 3 [] q = "medium" -> 2 [] q = "low" -> 1 [] OTHER -> 0

(* A filter without the advertisement rule.                                *)
Passes_IgnoresAds(e, min_relevance) ==
    /\ e.watermark_severity # "heavy"
    /\ e.relevance_score >= min_relevance
    /\ e.is_relevant_to_event
    /\ ~e.contains_outdated_info

(* vision_analyzer.py:226-246: the five rejection rules.                   *)
Passes(e, min_relevance) ==
    /\ e.watermark_severity # "heavy"
    /\ e.ad_presence # "intrusive"
    /\ e.relevance_score >= min_relevance
    /\ e.is_relevant_to_event
    /\ ~e.contains_outdated_info

RECURSIVE FilterEvals(_, _)
FilterEvals(evals, min_relevance) ==
    IF evals = <<>> THEN <<>>
    ELSE (IF Passes(Head(evals), min_relevance) THEN <<Head(evals)>> ELSE <<>>)
         \o FilterEvals(Tail(evals), min_relevance)

(* list.sort(key, reverse=True): stable, descending.  by_quality tells    *)
(* whether the key is (relevance_score, quality_order) or the score alone. *)
KeyLess(a, b, by_quality) ==
    \/ a.relevance_score < b.relevance_score
    \/ /\ by_quality
       /\ a.relevance_score = b.relevance_score
       /\ QualityOrder(a.content_quality) < QualityOrder(b.content_quality)

RECURSIVE InsertDesc(_, _, _)
InsertDesc(e, sorted, by_quality) ==
    IF sorted = <<>> THEN <<e>>
    ELSE IF KeyLess(Head(sorted), e, by_quality) THEN <<e>> \o sorted
         ELSE <<Head(sorted)>> \o InsertDesc(e, Tail(sorted), by_quality)

RECURSIVE SortDesc(_, _)
SortDesc(l, by_quality) ==
    IF l = <<>> THEN <<>>
    ELSE InsertDesc(l[Len(l)], SortDesc(SubSeq(l, 1, Len(l) - 1), by_quality),
                    by_quality)

(* A filter that sorts by the score alone.                                 *)
_filter_evaluations_ByScore(evals, min_relevance) ==
    SortDesc(FilterEvals(evals, min_relevance), FALSE)

(* vision_analyzer.py:211-259 *)
_filter_evaluations(evals, min_relevance) ==
    SortDesc(FilterEvals(evals, min_relevance), TRUE)

(* A selection that probes every supported URL.                            *)
Submitted_ProbesAll(urls, reachable) ==
    LET supported == FilterSeq(urls, {u \in Range(urls) : u.ext \in SupportedExtensions})
    IN Take(FilterSeq(supported, reachable), MaxAnalyzed)

(* The URLs submitted to the vision model: supported extension, the first  *)
(* 20 probed, the first 5 of the reachable ones.                           *)
Submitted(urls, reachable) ==
    LET supported == FilterSeq(urls, {u \in Range(urls) : u.ext \in SupportedExtensions})
        probed == Take(supported, MaxProbed)
    IN Take(FilterSeq(probed, reachable), MaxAnalyzed)

(* analyze_images: every failure of the AI call or of the parse is caught  *)
(* inside and gives the empty list; the filter runs with its default       *)
(* min_relevance, whoever the caller is.                                   *)
analyze_images(urls, reachable, answer) ==
    IF Submitted(urls, reachable) = <<>> THEN <<>>
    ELSE IF answer.kind = "raises" THEN <<>>
    ELSE _filter_evaluations(
            _parse_evaluations(answer, Submitted(urls, reachable)),
            DefaultMinRelevance)

(* Hosts on which urllib.parse.urlparse raises ValueError("Invalid IPv6    *)
(* URL"): a bracket that is not closed.                                    *)
UnbalancedHosts == {"[cdn"}

urlparse_raises(u) == u.host \in UnbalancedHosts

(* What a call of analyze_images gives its caller.  The loop of lines      *)
(* 43-48 parses every URL before the try block of line 102 is entered.     *)
AnalyzeOutcome(urls, reachable, answer) ==
    IF \E i \in 1..Len(urls) : urlparse_raises(urls[i])
    THEN [ok |-> FALSE, value |-> <<>>,
          exc |-> Exception("ValueError", 0, <<"Invalid IPv6 URL">>)]
    ELSE [ok |-> TRUE, value |-> <<analyze_images(urls, reachable, answer)>>,
          exc |-> NoException]

----------------------------------------------------------------------------
(* image_processor.ImageProcessor *)

(* What the network and the decoder answer for one candidate: the HEAD     *)
(* probe of the suitability check, the HEAD probe of validate_image_url,   *)
(* the download, and the decoded image.                                    *)
Answer(suit, head, download, decoded) ==
    [suit |-> suit, head |-> head, download |-> download, decoded |-> decoded]

(* A decoded image: its size and PIL mode, and how thumbnail's comparison  *)
(* of two equal aspect errors, made in floating point, falls out on it.    *)
(* Undecodable is data on which Image.open raises.                         *)
Image(w, h, mode) ==
    [opens |-> TRUE, width |-> w, height |-> h, mode |-> mode, tie |-> "floor"]
Undecodable ==
    [opens |-> FALSE, width |-> 0, height |-> 0, mode |-> "none", tie |-> "floor"]

Rgb == Image(1600, 1200, "RGB")
Rgba == Image(1200, 1200, "RGBA")
Small == Image(640, 480, "RGB")

ProcessorAnswers ==
    { Answer("image", "image", TRUE, Rgb),
      Answer("image", "image", TRUE, Rgba),
      Answer("image", "image", TRUE, Small),
      Answer("image", "image", TRUE, Undecodable),
      Answer("image", "image", FALSE, Rgb),
      Answer("too_large", "image", TRUE, Rgb),
      Answer("other", "other", TRUE, Rgb),
      Answer("fail", "fail", FALSE, Undecodable) }

ImageExtensions == {"jpg", "jpeg", "png", "gif", "webp", "bmp", "svg"}

validate_image_suitability(env) ==
    IF env.suit = "image"
    THEN [suitable |-> TRUE, needs_validation |-> TRUE]
    ELSE [suitable |-> FALSE, needs_validation |-> FALSE]

is_valid_url(u) == u.host # ""

validate_image_url(u, env) ==
    /\ is_valid_url(u)
    /\ \/ env.head = "image"
       \/ env.head = "other" /\ u.ext \in ImageExtensions

Abs(n) == IF n < 0 THEN -n ELSE n
Max(a, b) == IF a >= b THEN a ELSE b

(* PIL.Image.thumbnail((m, m)) on a w x h image: the size it resizes to.   *)
(* The side that is not m is floor or ceiling of its exact value, the one  *)
(* whose aspect ratio is nearer the original's (the floor when it is 0),   *)
(* and at least 1.  When both are as near, rounding errors of the          *)
(* floating-point keys decide: `tie` is what they give.                    *)
Nearer(df, dc, f, c, tie) ==
    IF df < dc THEN f ELSE IF dc < df THEN c
    ELSE IF tie = "floor" THEN f ELSE c

thumbnail(w, h, m, tie) ==
    IF m >= w /\ m >= h THEN <<w, h>>
    ELSE IF h >= w
    THEN LET f == (m * w) \div h
             c == IF (m * w) % h = 0 THEN f ELSE f + 1
         IN <<Max(Nearer(Abs(w * m - f * h), Abs(w * m - c * h), f, c, tie), 1), m>>
    ELSE LET f == (m * h) \div w
             c == IF (m * h) % w = 0 THEN f ELSE f + 1
             y == IF f = 0 THEN f
                  ELSE Nearer(Abs(w * f - m * h) * c, Abs(w * c - m * h) * f,
                              f, c, tie)
         IN <<m, Max(y, 1)>>

(* A processor that resizes to max_dimension x max_dimension.              *)
Resized_Square(w, h, tie) ==
    IF w > MaxDimension \/ h > MaxDimension
    THEN <<MaxDimension, MaxDimension>> ELSE <<w, h>>

(* image_processor.py:113-117 *)
Resized(w, h, tie) ==
    IF w > MaxDimension \/ h > MaxDimension
    THEN thumbnail(w, h, MaxDimension, tie) ELSE <<w, h>>

(* process_image: <<>> (None) for data that does not decode and for an     *)
(* image with both sides below the minimum; RGBA is kept and saved as PNG, *)
(* every other mode is saved as JPEG.                                      *)
process_image(img) ==
    IF ~img.opens THEN <<>>
    ELSE IF img.width < MinImageSize /\ img.height < MinImageSize THEN <<>>
    ELSE LET size == Resized(img.width, img.height, img.tie) IN
         <<[format |-> IF img.mode = "RGBA" THEN "png" ELSE "jpeg",
            width |-> size[1], height |-> size[2],
            dimensions |-> ToString(size[1]) \o "x" \o ToString(size[2])]>>

Processed(needs, fmt, dims) ==
    [needs_processing |-> needs, format |-> fmt, dimensions |-> dims]

(* process_image_url: <<>> is None.                                        *)
process_image_url(u, env) ==
    LET v == validate_image_suitability(env) IN
    IF v.suitable /\ ~v.needs_validation
    THEN <<Processed(FALSE, "original", "unknown")>>
    ELSE IF ~validate_image_url(u, env) THEN <<>>
    ELSE IF ~env.download THEN <<>>
    ELSE IF process_image(env.decoded) = <<>> THEN <<>>
    ELSE <<Processed(TRUE, process_image(env.decoded)[1].format,
                     process_image(env.decoded)[1].dimensions)>>

----------------------------------------------------------------------------
(* storage.ImageStorage *)

(* The disk's answer to a write: done, or an OSError that save_image logs  *)
(* and re-raises.                                                          *)
DiskAnswers == {"ok", "ENOSPC", "EDQUOT"}

OSError(disk) ==
    Exception("OSError", 0,
        <<IF disk = "EDQUOT" THEN "[Errno 122] Disk quota exceeded"
          ELSE "[Errno 28] No space left on device">>)

(* save_image names the file <uuid4>.<ext>; get_image_url gives its URL.   *)
get_image_url(uid, format) ==
    [host |-> PublicHost, name |-> "stored",
     ext |-> IF format = "jpeg" THEN "jpg" ELSE format, uid |-> uid]

----------------------------------------------------------------------------
(* main.py: helpers of the pipeline *)

(* History of one request.                                                *)
(*   searches       provider searches made, specific and generic           *)
(*   evaluations    analyze_images calls made                              *)
(*   ok_url         the last URL process_image_url returned a result for   *)
(*   saves          files written by save_image                            *)
(*   late           a search, evaluation or processing call was made after *)
(*                  process_image_url had returned a result                *)
(*   restarted      a strategy was started after process_image_url had     *)
(*                  returned a result                                      *)
(*   note           what the latest step observed: a generic evaluation    *)
(*                  whose AI call raised a quota error, or one that lost   *)
(*                  an image acceptable at the relaxed floor               *)
(*   queries        the phrasings of the specific searches made, in order  *)
(*   cache_before   the cache when the request's lookup began              *)
(*   ended          the place where the request ended                      *)
NoUrl == Url("", "", "")

NoHist ==
    [searches |-> 0, evaluations |-> 0, ok_url |-> NoUrl, saves |-> 0,
     late |-> FALSE, restarted |-> FALSE, note |-> "none", queries |-> <<>>,
     cache_before |-> <<>>, ended |-> "no"]

Ok(h) == h.ok_url # NoUrl

NoCall == [op |-> "none"]

(* A caller of the cache: where it is (idle, validating: inside the await  *)
(* of CacheManager.get, pipeline: after a miss, done), its request, the    *)
(* entry its lookup has read, what the lookup gave, and the rank of its    *)
(* set among the sets made (0: none).                                      *)
Clients == 1..MaxClients

Task(at, r, data, got, n) ==
    [pc |-> at, request |-> r, data |-> data, got |-> got, set_at |-> n]

NoTasks == [c \in Clients |-> Task("idle", NoRequest, <<>>, "none", 0)]

Called(h) == [h EXCEPT !.late = @ \/ Ok(h), !.note = "none"]

Searched(h) == [Called(h) EXCEPT !.searches = @ + 1]

(* image_collector.py:161-175: the query of search_perplexity, by its      *)
(* opening words; title and research are the request's in every call.      *)
Phrasing(retry_attempt) ==
    IF retry_attempt = 1 THEN "press photos" ELSE "visual content"

(* search_perplexity(title, research, retry_attempt) was called.           *)
Queried(h, retry_attempt) ==
    [Searched(h) EXCEPT !.queries = Append(@, Phrasing(retry_attempt))]

Started(h) == [h EXCEPT !.restarted = @ \/ Ok(h)]

Evaluated(h) == [Called(h) EXCEPT !.evaluations = @ + 1]

Tried(h, u, processed, disk) ==
    IF processed = <<>> THEN Called(h)
    ELSE [Called(h) EXCEPT
            !.ok_url = u,
            !.saves = @ + (IF processed[1].needs_processing /\ disk = "ok"
                           THEN 1 ELSE 0)]

(* _determine_tool_used; "source_url in image_url" is containment of the   *)
(* source URL in the image URL, here: the image is on the source's host.   *)
_determine_tool_used(u, r) ==
    IF r.images # <<>> /\ u \in Range(r.images) THEN "candidate"
    ELSE IF Truthy(r.source_url) /\ r.source_url = u.host THEN "site"
    ELSE "perplexity"

(* _create_fallback_response: the keyword arguments it passes.             *)
FallbackKwargs ==
    [image_url |-> DefaultFallbackImage, original_url |-> DefaultFallbackImage,
     tool_used |-> "default", image_description |-> "default",
     format |-> "png", dimensions |-> "1280x720",
     quality_score |-> FallbackQualityScore,
     temporal_relevance |-> "not_applicable", watermark_status |-> "none",
     cached |-> FALSE]

(* The result of a call that returns a Response or raises.                 *)
Returned(resp) == [ok |-> TRUE, value |-> <<resp>>, exc |-> NoException]
Raised(e) == [ok |-> FALSE, value |-> <<>>, exc |-> e]

Construct(kwargs) ==
    IF ImageResponseValid(kwargs) THEN Returned(ImageResponse(kwargs))
    ELSE Raised(ValidationError)

_create_fallback_response == Construct(FallbackKwargs)

(* The code that follows "if processed:" at each of the four sites: store  *)
(* the bytes unless the original URL is used, then build the Response.     *)
Serve(u, p, disk, uid, tool, desc, score, temporal, wm) ==
    IF p.needs_processing /\ disk # "ok" THEN Raised(OSError(disk))
    ELSE Construct(
        [image_url |-> IF p.needs_processing THEN get_image_url(uid, p.format) ELSE u,
         original_url |-> u, tool_used |-> tool, image_description |-> desc,
         format |-> p.format, dimensions |-> p.dimensions,
         quality_score |-> score, temporal_relevance |-> temporal,
         watermark_status |-> wm, cached |-> FALSE])

ServeEvaluation(ev, p, disk, uid, tool, desc) ==
    Serve(ev.image_url, p, disk, uid, tool, desc, ev.relevance_score,
          ev.temporal_relevance, ev.watermark_severity)

ServeBlind(u, p, disk, uid) ==
    Serve(u, p, disk, uid, "fallback (perplexity)", "generic, no AI analysis",
          BlindQualityScore, "not_applicable", "none")

(* main.py:373, the test for a quota error.                                *)
IsQuotaError(e) == \E i \in 1..Len(Str(e)) : Str(e)[i] \in QuotaTexts

(* _try_generic_fallback: the relaxed filter and its sort by score.        *)
RECURSIVE RelaxedFilter(_)
RelaxedFilter(evals) ==
    IF evals = <<>> THEN <<>>
    ELSE (IF /\ Head(evals).watermark_severity # "heavy"
             /\ Head(evals).ad_presence # "intrusive"
             /\ Head(evals).relevance_score >= RelaxedMinRelevance
          THEN <<Head(evals)>> ELSE <<>>) \o RelaxedFilter(Tail(evals))

relaxed_evals(evals) == SortDesc(RelaxedFilter(evals), FALSE)

----------------------------------------------------------------------------
(* main._extract_topic.  Texts are sequences of characters.                *)

Upper == <<"A", "B", "C", "E", "F", "K", "M", "O", "S", "T", "X">>
LowerOf == <<"a", "b", "c", "e", "f", "k", "m", "o", "s", "t", "x">>

LowerChar(ch) ==
    IF \E i \in 1..Len(Upper) : Upper[i] = ch
    THEN LowerOf[CHOOSE i \in 1..Len(Upper) : Upper[i] = ch]
    ELSE ch

(* str.lower *)
Lower(text) == [i \in 1..Len(text) |-> LowerChar(text[i])]

(* keyword in text *)
Contains(text, keyword) ==
    \E i \in 1..(Len(text) - Len(keyword) + 1) :
        SubSeq(text, i, i + Len(keyword) - 1) = keyword

(* topic_map, in the order of the dict literal.                            *)
topic_map ==
    <<
      [category |-> "cryptocurrency",
       keywords |-> {
         <<"c", "r", "y", "p", "t", "o">>,
         <<"b", "i", "t", "c", "o", "i", "n">>,
         <<"e", "t", "h", "e", "r", "e", "u", "m">>,
         <<"b", "l", "o", "c", "k", "c", "h", "a", "i", "n">>,
         <<"b", "t", "c">>, <<"e", "t", "h">>, <<"s", "o", "l">>,
         <<"t", "o", "k", "e", "n">>, <<"c", "o", "i", "n">>,
         <<"d", "e", "f", "i">>, <<"n", "f", "t">>}],
      [category |-> "artificial intelligence",
       keywords |-> {
         <<"a", "i">>,
         <<"a", "r", "t", "i", "f", "i", "c", "i", "a", "l", " ", "i", "n", "t", "e", "l", "l", "i", "g", "e", "n", "c", "e">>,
         <<"m", "a", "c", "h", "i", "n", "e", " ", "l", "e", "a", "r", "n", "i", "n", "g">>,
         <<"l", "l", "m">>, <<"g", "p", "t">>,
         <<"c", "l", "a", "u", "d", "e">>, <<"g", "e", "m", "i", "n", "i">>,
         <<"o", "p", "e", "n", "a", "i">>,
         <<"a", "n", "t", "h", "r", "o", "p", "i", "c">>,
         <<"n", "e", "u", "r", "a", "l">>, <<"m", "o", "d", "e", "l">>}],
      [category |-> "robotics",
       keywords |-> {
         <<"r", "o", "b", "o", "t">>,
         <<"r", "o", "b", "o", "t", "i", "c", "s">>,
         <<"h", "u", "m", "a", "n", "o", "i", "d">>,
         <<"a", "u", "t", "o", "m", "a", "t", "i", "o", "n">>,
         <<"d", "r", "o", "n", "e">>}],
      [category |-> "finance",
       keywords |-> {
         <<"s", "t", "o", "c", "k">>, <<"m", "a", "r", "k", "e", "t">>,
         <<"t", "r", "a", "d", "i", "n", "g">>,
         <<"i", "n", "v", "e", "s", "t", "m", "e", "n", "t">>,
         <<"e", "t", "f">>, <<"f", "u", "n", "d">>,
         <<"f", "i", "n", "a", "n", "c", "i", "a", "l">>}],
      [category |-> "technology",
       keywords |-> {
         <<"t", "e", "c", "h">>, <<"s", "o", "f", "t", "w", "a", "r", "e">>,
         <<"h", "a", "r", "d", "w", "a", "r", "e">>,
         <<"s", "t", "a", "r", "t", "u", "p">>,
         <<"i", "n", "n", "o", "v", "a", "t", "i", "o", "n">>,
         <<"d", "i", "g", "i", "t", "a", "l">>}],
      [category |-> "social media",
       keywords |-> {
         <<"s", "o", "c", "i", "a", "l", " ", "m", "e", "d", "i", "a">>,
         <<"f", "a", "c", "e", "b", "o", "o", "k">>,
         <<"t", "w", "i", "t", "t", "e", "r">>,
         <<"i", "n", "s", "t", "a", "g", "r", "a", "m">>,
         <<"t", "i", "k", "t", "o", "k">>, <<"m", "e", "t", "a">>}],
      [category |-> "gaming",
       keywords |-> {
         <<"g", "a", "m", "e">>, <<"g", "a", "m", "i", "n", "g">>,
         <<"e", "s", "p", "o", "r", "t", "s">>,
         <<"c", "o", "n", "s", "o", "l", "e">>,
         <<"p", "l", "a", "y", "s", "t", "a", "t", "i", "o", "n">>,
         <<"x", "b", "o", "x">>}],
      [category |-> "automotive",
       keywords |-> {
         <<"c", "a", "r">>, <<"v", "e", "h", "i", "c", "l", "e">>,
         <<"a", "u", "t", "o", "m", "o", "t", "i", "v", "e">>,
         <<"t", "e", "s", "l", "a">>,
         <<"e", "l", "e", "c", "t", "r", "i", "c", " ", "v", "e", "h", "i", "c", "l", "e">>,
         <<"e", "v">>}]
    >>

Matches(entry, text) == \E keyword \in entry.keywords : Contains(text, keyword)

(* A lookup that returns the last matching category.                       *)
_extract_topic_Last(title, research) ==
    LET text == Lower(title \o <<" ">> \o research)
        hits == {i \in 1..Len(topic_map) : Matches(topic_map[i], text)}
    IN IF hits = {} THEN "technology"
       ELSE topic_map[CHOOSE i \in hits : \A j \in hits : j <= i].category

(* main.py:419-445 *)
_extract_topic(title, research) ==
    LET text == Lower(title \o <<" ">> \o research)
        hits == {i \in 1..Len(topic_map) : Matches(topic_map[i], text)}
    IN IF hits = {} THEN "technology"
       ELSE topic_map[CHOOSE i \in hits : \A j \in hits : i <= j].category

----------------------------------------------------------------------------
(* find_image: how a request ends *)

(* A find_image that stores a default entry when the pipeline raised.      *)
CacheAfterPipeline_Always(c, key, r, t) ==
    IF r.ok THEN CacheSet(c, key, r.value[1], t)
    ELSE CacheSet(c, key, [f \in ResponseFields |->
                             IF f = "image_found" THEN FALSE ELSE FallbackKwargs[f]], t)

(* The cache after _find_image_internal ended inside wait_for with result  *)
(* r: set() runs only on the path that received a Response.                *)
CacheAfterPipeline(c, key, r, t) ==
    IF r.ok THEN CacheSet(c, key, r.value[1], t) ELSE c

(* What the caller receives when a Response was built (r.ok) or an         *)
(* exception reached the outer handler.                                    *)
OutcomeOf(r) ==
    IF r.ok THEN ResponseOutcome(r.value[1])
    ELSE ErrorOutcome(OuterHandler(r.exc))

(* What the caller receives when wait_for raised asyncio.TimeoutError.     *)
OutcomeOfTimeout == ErrorOutcome(OuterHandler(TimeoutHandler))

(* A strategy started by the request.                                      *)
Strategy(name, n) == [name |-> name, attempt |-> n]

(* The request ends at `site` with r, the result of the pipeline; st is    *)
(* the list of strategies started and h the history, the acting step's own *)
(* included.  The task's locals die with it.                               *)
Conclude(r, st, h, site) ==
    /\ pc' = "done"
    /\ outcome' = OutcomeOf(r)
    /\ cache' = CacheAfterPipeline(cache, KeyOf(req), r, now)
    /\ persisted' = IF r.ok THEN cache' ELSE persisted
    /\ strategies' = st
    /\ hist' = [h EXCEPT !.ended = site]
    /\ attempt' = 0
    /\ image_urls' = <<>>
    /\ shortlist' = <<>>
    /\ blind_left' = <<>>

(* The pipeline goes on at next_pc with the locals it still reads.         *)
Continue(next_pc, n, st, h, urls, evals, blind) ==
    /\ pc' = next_pc
    /\ attempt' = n
    /\ strategies' = st
    /\ hist' = h
    /\ image_urls' = urls
    /\ shortlist' = evals
    /\ blind_left' = blind
    /\ UNCHANGED <<cache, persisted, outcome>>

(* An orchestrator that answers an initial pass without a result with the  *)
(* default Response.                                                       *)
AfterInitial_Default(st, h) ==
    Conclude(_create_fallback_response, st, h, "default")

(* The end of the initial pass without a result: the first search retry.   *)
AfterInitial(st, h) == Continue("search", 1, st, h, <<>>, <<>>, <<>>)

(* A retry loop with one more turn.                                        *)
AfterRetry_OneMore(st, h) ==
    IF attempt < MaxPerplexityAttempts + 1
    THEN Continue("search", attempt + 1, st, h, <<>>, <<>>, <<>>)
    ELSE Continue("generic_search", 1, st, h, <<>>, <<>>, <<>>)

(* The end of one turn of the while loop of the search retries.            *)
AfterRetry(st, h) ==
    IF attempt < MaxPerplexityAttempts
    THEN Continue("search", attempt + 1, st, h, <<>>, <<>>, <<>>)
    ELSE Continue("generic_search", 1, st, h, <<>>, <<>>, <<>>)

(* A retry loop without the handler of main.py:264.                        *)
CaughtInRetry_Propagates(r, st, h) == Conclude(r, st, h, "retry")

(* main.py:264-265: an exception raised in a turn of the retry loop (by    *)
(* save_image or by the Response's constructor) is logged and the turn     *)
(* ends.                                                                   *)
CaughtInRetry(r, st, h) == AfterRetry(st, h)

(* An orchestrator that answers exhaustion with the default Response.      *)
AfterGeneric_Default(st, h) ==
    IF attempt < MaxGenericAttempts
    THEN Continue("generic_search", attempt + 1, st, h, <<>>, <<>>, <<>>)
    ELSE Conclude(_create_fallback_response, Append(st, Strategy("exhausted", 0)),
                  h, "exhausted")

(* The end of one turn of the for loop of _try_generic_fallback; after the *)
(* last turn it returns None and _find_image_internal raises (main.py:     *)
(* 273-281).                                                               *)
AfterGeneric(st, h) ==
    IF attempt < MaxGenericAttempts
    THEN Continue("generic_search", attempt + 1, st, h, <<>>, <<>>, <<>>)
    ELSE Conclude(Raised(ExhaustionError), Append(st, Strategy("exhausted", 0)),
                  h, "exhausted")

(* uuid4: a name no earlier file carries.                                  *)
NextUid == <<served, hist.saves + 1>>

(* A timeout that may also fire once the request has its outcome.         *)
PipelinePcs_AndDone ==
    {"collect", "evaluate", "process", "search", "retry_evaluate",
     "retry_process", "generic_search", "generic_evaluate", "generic_process",
     "blind_process", "done"}

(* The positions inside asyncio.wait_for (main.py:103-106).                *)
PipelinePcs ==
    {"collect", "evaluate", "process", "search", "retry_evaluate",
     "retry_process", "generic_search", "generic_evaluate", "generic_process",
     "blind_process"}

----------------------------------------------------------------------------
(* Actions *)

Init ==
    /\ pc = "idle"
    /\ req = NoRequest
    /\ served = 0
    /\ now = CacheMaxAgeDays
    /\ cache = InitialCache
    /\ persisted = cache
    /\ outcome = NoOutcome
    /\ image_urls = <<>>
    /\ shortlist = <<>>
    /\ blind_left = <<>>
    /\ attempt = 0
    /\ strategies = <<>>
    /\ hist = NoHist
    /\ call = NoCall
    /\ tasks = NoTasks

(* A POST arrives. *)
Receive ==
    /\ pc = "idle"
    /\ served < MaxRequests
    /\ \E r \in Requests : req' = r
    /\ served' = served + 1
    /\ pc' = "cache_get"
    /\ call' = NoCall
    /\ UNCHANGED <<now, cache, persisted, outcome, image_urls, shortlist,
                   blind_left, attempt, strategies, hist>>
    /\ UNCHANGED tasks

(* Time passes between requests. *)
Tick ==
    /\ pc = "idle"
    /\ now < MaxNow
    /\ now' = now + 1
    /\ call' = NoCall
    /\ UNCHANGED <<pc, req, served, cache, persisted, outcome, image_urls,
                   shortlist, blind_left, attempt, strategies, hist>>
    /\ UNCHANGED tasks

(* main.py:89-99: the cache lookup and, on a hit, the Response built from  *)
(* the entry.                                                              *)
CacheLookup ==
    /\ pc = "cache_get"
    /\ \E reachable \in BOOLEAN :
        LET key == KeyOf(req)
            got == CacheGet(cache, persisted, key, now, reachable)
        IN /\ cache' = got.cache
           /\ persisted' = got.persisted
           /\ IF got.hit
              THEN /\ pc' = "done"
                   /\ outcome' = OutcomeOf(Construct(got.cache[key]))
                   /\ hist' = [hist EXCEPT !.cache_before = cache, !.ended = "hit"]
              ELSE /\ pc' = "collect"
                   /\ outcome' = outcome
                   /\ hist' = [hist EXCEPT !.cache_before = cache]
    /\ call' = NoCall
    /\ UNCHANGED <<req, served, now, image_urls, shortlist, blind_left, attempt,
                   strategies>>
    /\ UNCHANGED tasks

(* main.py:119-125: the total-request timeout fires while the pipeline is  *)
(* suspended; the task is cancelled.                                       *)
Timeout ==
    /\ pc \in PipelinePcs
    /\ pc' = "done"
    /\ outcome' = OutcomeOfTimeout
    /\ hist' = [hist EXCEPT !.ended = "timeout"]
    /\ attempt' = 0
    /\ image_urls' = <<>>
    /\ shortlist' = <<>>
    /\ blind_left' = <<>>
    /\ call' = NoCall
    /\ UNCHANGED <<req, served, now, cache, persisted, strategies>>
    /\ UNCHANGED tasks

(* main.py:139-148: collect_all, and the default Response when it returns  *)
(* nothing.                                                                *)
Collect ==
    /\ pc = "collect"
    /\ \E scraped \in ScrapeAnswers, searched \in SearchAnswers :
        LET urls == collect_all(req, scraped, searched)
            st == Append(strategies, Strategy("initial", 0))
            h == IF SearchNeeded(req, scraped)
                 THEN Queried(hist, DefaultRetryAttempt) ELSE Called(hist)
        IN /\ call' = [op |-> "collect_all",
                       user |-> req.images,
                       scraped |-> ScrapedList(req, scraped),
                       searched |-> SearchedList(req, scraped, searched),
                       result |-> urls]
           /\ IF urls = <<>> THEN Conclude(_create_fallback_response, st, h, "default")
              ELSE Continue("evaluate", 0, st, h, urls, <<>>, <<>>)
    /\ UNCHANGED <<req, served, now>>
    /\ UNCHANGED tasks

(* main.py:151-160: the call of analyze_images is in no try block, so an   *)
(* exception of it leaves the function.                                    *)
EvaluateStep(reachable, answer) ==
    LET out == AnalyzeOutcome(image_urls, reachable, answer) IN
    IF ~out.ok
    THEN Conclude([ok |-> FALSE, value |-> <<>>, exc |-> out.exc],
                  strategies, Evaluated(hist), "initial")
    ELSE IF out.value[1] = <<>> THEN AfterInitial(strategies, Evaluated(hist))
    ELSE Continue("process", 0, strategies, Evaluated(hist), <<>>,
                  out.value[1], <<>>)

EvaluateInitial ==
    /\ pc = "evaluate"
    /\ \E reachable \in SUBSET Range(image_urls) :
       \E answer \in AiAnswers(Len(Submitted(image_urls, reachable))) :
        EvaluateStep(reachable, answer)
    /\ call' = NoCall
    /\ UNCHANGED <<req, served, now>>
    /\ UNCHANGED tasks

(* A loop that gives up the shortlist at its first failed candidate.       *)
ProcessStep_StopsAtFirst(env, disk) ==
    LET ev == Head(shortlist)
        processed == process_image_url(ev.image_url, env)
        h == Tried(hist, ev.image_url, processed, disk)
    IN IF processed = <<>> THEN AfterInitial(strategies, h)
       ELSE Conclude(ServeEvaluation(ev, processed[1], disk, NextUid,
                _determine_tool_used(ev.image_url, req), ev.reasoning),
                strategies, h, "initial")

(* main.py:163-198: one turn of the initial processing loop.  An exception *)
(* of save_image or of the Response's constructor leaves the function.     *)
ProcessStep(env, disk) ==
    LET ev == Head(shortlist)
        processed == process_image_url(ev.image_url, env)
        h == Tried(hist, ev.image_url, processed, disk)
    IN IF processed = <<>>
       THEN IF Tail(shortlist) = <<>> THEN AfterInitial(strategies, h)
            ELSE Continue("process", 0, strategies, h, <<>>, Tail(shortlist), <<>>)
       ELSE Conclude(ServeEvaluation(ev, processed[1], disk, NextUid,
                _determine_tool_used(ev.image_url, req), ev.reasoning),
                strategies, h, "initial")

ProcessInitial ==
    /\ pc = "process"
    /\ shortlist # <<>>
    /\ \E env \in ProcessorAnswers, disk \in DiskAnswers : ProcessStep(env, disk)
    /\ call' = NoCall
    /\ UNCHANGED <<req, served, now>>
    /\ UNCHANGED tasks

(* main.py:207-218, 261-265: search_perplexity of a retry; it catches its  *)
(* own failures and returns the list it has.                               *)
SearchRetry ==
    /\ pc = "search"
    /\ \E perplexity_images \in RetryAnswers :
        LET st == Append(strategies, Strategy("search", attempt))
            h == Started(Queried(hist, attempt))
        IN IF perplexity_images = <<>> THEN AfterRetry(st, h)
           ELSE Continue("retry_evaluate", attempt, st, h, perplexity_images, <<>>, <<>>)
    /\ call' = NoCall
    /\ UNCHANGED <<req, served, now>>
    /\ UNCHANGED tasks

(* main.py:222-226 *)
EvaluateRetry ==
    /\ pc = "retry_evaluate"
    /\ \E reachable \in SUBSET Range(image_urls) :
       \E answer \in AiAnswers(Len(Submitted(image_urls, reachable))) :
        LET evals == analyze_images(image_urls, reachable, answer) IN
        IF evals = <<>> THEN AfterRetry(strategies, Evaluated(hist))
        ELSE Continue("retry_process", attempt, strategies, Evaluated(hist),
                      <<>>, evals, <<>>)
    /\ call' = NoCall
    /\ UNCHANGED <<req, served, now>>
    /\ UNCHANGED tasks

(* main.py:229-265: one turn of a retry's processing loop.  An exception   *)
(* of save_image or of the Response's constructor is caught at line 264    *)
(* and ends the attempt.                                                   *)
ProcessRetry ==
    /\ pc = "retry_process"
    /\ shortlist # <<>>
    /\ \E env \in ProcessorAnswers, disk \in DiskAnswers :
        LET ev == Head(shortlist)
            processed == process_image_url(ev.image_url, env)
            h == Tried(hist, ev.image_url, processed, disk)
            r == ServeEvaluation(ev, processed[1], disk, NextUid,
                                 "perplexity", ev.reasoning)
        IN IF processed = <<>>
           THEN IF Tail(shortlist) = <<>> THEN AfterRetry(strategies, h)
                ELSE Continue("retry_process", attempt, strategies, h,
                              <<>>, Tail(shortlist), <<>>)
           ELSE IF r.ok THEN Conclude(r, strategies, h, "retry")
                ELSE CaughtInRetry(r, strategies, h)
    /\ call' = NoCall
    /\ UNCHANGED <<req, served, now>>
    /\ UNCHANGED tasks

(* main.py:302-316 *)
GenericSearch ==
    /\ pc = "generic_search"
    /\ \E generic_images \in GenericAnswers :
        LET st == Append(strategies, Strategy("generic", attempt))
            h == Started(Searched(hist))
        IN IF generic_images = <<>> THEN AfterGeneric(st, h)
           ELSE Continue("generic_evaluate", attempt, st, h, generic_images, <<>>, <<>>)
    /\ call' = NoCall
    /\ UNCHANGED <<req, served, now>>
    /\ UNCHANGED tasks

(* What a generic evaluation observed (history only): the AI call raised a *)
(* quota error, or the answer held an image that _filter_evaluations       *)
(* accepts at the relaxed floor and `evals`, the attempt's shortlist, does *)
(* not hold.                                                               *)
GenericNote(urls, reachable, answer, evals) ==
    LET sent == Submitted(urls, reachable) IN
    IF sent = <<>> THEN "none"
    ELSE IF answer.kind = "raises"
    THEN (IF IsQuotaError(answer.error) THEN "quota_error" ELSE "none")
    ELSE IF \E e \in Range(_filter_evaluations(_parse_evaluations(answer, sent),
                                               RelaxedMinRelevance)) :
                e \notin Range(evals)
    THEN "relaxed_dropped"
    ELSE "none"

(* main.py:319-339: analyze_images, then the relaxed filter over what it   *)
(* returned.  generic_images stays in use: the blind loop reads it.        *)
GenericEvaluate ==
    /\ pc = "generic_evaluate"
    /\ \E reachable \in SUBSET Range(image_urls) :
       \E answer \in AiAnswers(Len(Submitted(image_urls, reachable))) :
        LET evals == relaxed_evals(analyze_images(image_urls, reachable, answer))
            h == [Evaluated(hist) EXCEPT
                    !.note = GenericNote(image_urls, reachable, answer, evals)]
        IN IF evals = <<>> THEN AfterGeneric(strategies, h)
           ELSE Continue("generic_process", attempt, strategies, h,
                         image_urls, evals, <<>>)
    /\ call' = NoCall
    /\ UNCHANGED <<req, served, now>>
    /\ UNCHANGED tasks

(* main.py:342-374, 408-413: one turn of a generic attempt's processing    *)
(* loop.  An exception of save_image or of the Response's constructor      *)
(* reaches the handler of line 370: a quota error starts the blind loop    *)
(* over generic_images, any other is re-raised and caught at line 412.     *)
GenericProcess ==
    /\ pc = "generic_process"
    /\ shortlist # <<>>
    /\ \E env \in ProcessorAnswers, disk \in DiskAnswers :
        LET ev == Head(shortlist)
            processed == process_image_url(ev.image_url, env)
            h == Tried(hist, ev.image_url, processed, disk)
            r == ServeEvaluation(ev, processed[1], disk, NextUid,
                                 "fallback (perplexity)", ev.reasoning)
        IN IF processed = <<>>
           THEN IF Tail(shortlist) = <<>> THEN AfterGeneric(strategies, h)
                ELSE Continue("generic_process", attempt, strategies, h,
                              image_urls, Tail(shortlist), <<>>)
           ELSE IF r.ok THEN Conclude(r, strategies, h, "generic")
           ELSE IF IsQuotaError(r.exc)
           THEN Continue("blind_process", attempt,
                         Append(strategies, Strategy("blind", attempt)), h,
                         <<>>, <<>>, image_urls)
           ELSE AfterGeneric(strategies, h)
    /\ call' = NoCall
    /\ UNCHANGED <<req, served, now>>
    /\ UNCHANGED tasks

(* main.py:377-407: one turn of the blind loop; an exception in the turn   *)
(* is caught at line 405 and the loop goes on.                             *)
BlindProcess ==
    /\ pc = "blind_process"
    /\ blind_left # <<>>
    /\ \E env \in ProcessorAnswers, disk \in DiskAnswers :
        LET u == Head(blind_left)
            processed == process_image_url(u, env)
            h == Tried(hist, u, processed, disk)
            r == ServeBlind(u, processed[1], disk, NextUid)
        IN IF processed # <<>> /\ r.ok THEN Conclude(r, strategies, h, "blind")
           ELSE IF Tail(blind_left) = <<>> THEN AfterGeneric(strategies, h)
           ELSE Continue("blind_process", attempt, strategies, h,
                         <<>>, <<>>, Tail(blind_left))
    /\ call' = NoCall
    /\ UNCHANGED <<req, served, now>>
    /\ UNCHANGED tasks

(* The response has been sent; the task is gone.                           *)
Finish ==
    /\ pc = "done"
    /\ pc' = "idle"
    /\ req' = NoRequest
    /\ outcome' = NoOutcome
    /\ strategies' = <<>>
    /\ hist' = NoHist
    /\ call' = NoCall
    /\ UNCHANGED <<served, now, cache, persisted, image_urls, shortlist,
                   blind_left, attempt>>
    /\ UNCHANGED tasks

Next ==
    \/ Receive
    \/ Tick
    \/ CacheLookup
    \/ Timeout
    \/ Collect
    \/ EvaluateInitial
    \/ ProcessInitial
    \/ SearchRetry
    \/ EvaluateRetry
    \/ ProcessRetry
    \/ GenericSearch
    \/ GenericEvaluate
    \/ GenericProcess
    \/ BlindProcess
    \/ Finish

Spec == Init /\ [][Next]_vars

----------------------------------------------------------------------------
(* CacheManager on its own: get and set called directly, in any order,    *)
(* with arguments drawn from CacheRequests, while time passes.             *)

(* Arguments of the calls: two requests of the service, and requests that  *)
(* differ from one another by None against empty, or by the place of a     *)
(* '|' between title and research.                                         *)
CacheRequests ==
    { Request(<<"t1">>, <<"r">>, None, FALSE, <<UserA>>),
      Request(<<"t2">>, <<"r">>, "site", TRUE, <<>>),
      Request(<<"t2">>, <<"r">>, "site", FALSE, <<>>),
      Request(<<"t3", "|", "r">>, <<"x">>, None, TRUE, <<>>),
      Request(<<"t3">>, <<"r", "|", "x">>, None, TRUE, <<>>),
      Request(<<"t3">>, <<"r", "|", "x">>, "", TRUE, <<>>) }

(* The Response a caller stores for a request (result.model_dump()).       *)
ResponseFor(r) ==
    LET u == IF r.images # <<>> THEN Head(r.images)
             ELSE IF Truthy(r.source_url) THEN ScrapedS ELSE SearchP
    IN SeedResponse(u, _determine_tool_used(u, r))

(* cache_manager.set(title, research, source_url, images, result)          *)
SetCall ==
    /\ pc = "idle"
    /\ \E r \in CacheRequests :
        /\ cache' = CacheSet(cache, KeyOf(r), ResponseFor(r), now)
        /\ persisted' = cache'
        /\ call' = [op |-> "set", args |-> r, key |-> KeyOf(r)]
    /\ UNCHANGED <<pc, req, served, now, outcome, image_urls, shortlist,
                   blind_left, attempt, strategies, hist>>
    /\ UNCHANGED tasks

(* await cache_manager.get(title, research, source_url, images)            *)
GetCall ==
    /\ pc = "idle"
    /\ \E r \in CacheRequests, reachable \in BOOLEAN :
        LET key == KeyOf(r)
            got == CacheGet(cache, persisted, key, now, reachable)
        IN /\ cache' = got.cache
           /\ persisted' = got.persisted
           /\ call' = [op |-> "get", args |-> r, key |-> key,
                       reachable |-> reachable,
                       present |-> key \in DOMAIN cache,
                       age |-> IF key \in DOMAIN cache
                               THEN now - cache[key].cached_at ELSE 0,
                       hit |-> got.hit,
                       result |-> IF got.hit THEN <<got.cache[key]>> ELSE <<>>]
    /\ UNCHANGED <<pc, req, served, now, outcome, image_urls, shortlist,
                   blind_left, attempt, strategies, hist>>
    /\ UNCHANGED tasks

CacheNext ==
    \/ SetCall
    \/ GetCall
    \/ Tick

CacheSpec == Init /\ [][CacheNext]_vars

----------------------------------------------------------------------------
(* The evaluator called with a wider range of inputs than the service's    *)
(* collector and a cooperative vision model give it, followed by the       *)
(* initial processing loop.                                                *)

(* A list of MaxInputs URLs; the second has an unsupported extension.      *)
InputUrl(k) == Url("cdn", ToString(k), IF k = 2 THEN "svg" ELSE "jpg")

LongList == [k \in 1..MaxInputs |-> InputUrl(k)]

MalformedUrl == Url("[cdn", "m", "jpg")

EvalInputs ==
    { <<>>, <<UserA, SearchP>>, <<SearchP, UserA>>, <<UserA, ScrapedT, SearchP>>,
      <<ScrapedT>>, <<UserA, MalformedUrl>>, LongList }

(* Which URLs answer the HEAD probe: any subset of a short list, a run of  *)
(* consecutive URLs of a long one.                                         *)
ReachableSets(urls) ==
    IF Len(urls) <= 3 THEN SUBSET Range(urls)
    ELSE {{urls[i] : i \in lo..hi} : lo \in 1..Len(urls), hi \in 0..Len(urls)}

WithoutIndex(item) == [item EXCEPT !.has_index = FALSE]

(* Entries the vision model may give at position k of an array for n       *)
(* images: scores that tie, a score under the floor, a score out of range, *)
(* an entry without image_index, an entry that names another image.       *)
RichVerdicts(k, n) ==
    { Item(k, 9, "none", "none", "high", TRUE, FALSE),
      Item(k, 9, "none", "none", "low", TRUE, FALSE),
      Item(k, 8, "none", "none", "medium", TRUE, FALSE),
      Item(k, 7, "none", "none", "high", TRUE, FALSE),
      Item(k, 11, "none", "none", "high", TRUE, FALSE),
      WithoutIndex(Item(k, 9, "none", "none", "medium", TRUE, FALSE)),
      Item(n - 1 - k, 9, "minimal", "none", "high", TRUE, FALSE) }

RECURSIVE RichArrays(_, _)
RichArrays(k, n) ==
    IF k = 0 THEN {<<>>}
    ELSE {Append(a, v) : a \in RichArrays(k - 1, n), v \in RichVerdicts(k - 1, n)}

UniformArray(n) == [k \in 1..n |-> Item(k - 1, 9, "none", "none", "high", TRUE, FALSE)]

RichAnswers(n) ==
    {Responds(Prose),
     Raises(Exception("RateLimitError", 0, <<QuotaText>>)),
     Raises(Exception("APIConnectionError", 0, <<"Connection error.">>))}
    \cup (IF n <= 2
          THEN {Responds(Plain(a)) : a \in RichArrays(n, n)}
               \cup {Responds(Fenced(a)) : a \in RichArrays(n, n)}
               \cup {Responds(FencedOpen(a)) : a \in RichArrays(n, n)}
          ELSE {Responds(Plain(UniformArray(n))), Responds(Fenced(UniformArray(n)))})

EvalInit ==
    /\ pc = "evaluate"
    /\ req = Request(<<"t1">>, <<"r">>, None, FALSE, <<UserA>>)
    /\ served = 1
    /\ now = CacheMaxAgeDays
    /\ cache = InitialCache
    /\ persisted = cache
    /\ outcome = NoOutcome
    /\ image_urls \in EvalInputs
    /\ shortlist = <<>>
    /\ blind_left = <<>>
    /\ attempt = 0
    /\ strategies = <<Strategy("initial", 0)>>
    /\ hist = NoHist
    /\ call = NoCall
    /\ tasks = NoTasks

(* vision_analyzer.py:20-126 called by main.py:151-160. *)
AnalyzeCall ==
    /\ pc = "evaluate"
    /\ \E reachable \in ReachableSets(image_urls) :
       \E answer \in RichAnswers(Len(Submitted(image_urls, reachable))) :
        /\ EvaluateStep(reachable, answer)
        /\ call' = [op |-> "analyze_images",
                    image_urls |-> image_urls,
                    reachable |-> reachable,
                    submitted |-> Submitted(image_urls, reachable),
                    answer |-> answer,
                    outcome |-> AnalyzeOutcome(image_urls, reachable, answer)]
    /\ UNCHANGED <<req, served, now>>
    /\ UNCHANGED tasks

(* main.py:163-198, with what the turn was given and what it got.         *)
ProcessCall ==
    /\ pc = "process"
    /\ shortlist # <<>>
    /\ \E env \in ProcessorAnswers, disk \in DiskAnswers :
        /\ ProcessStep(env, disk)
        /\ call' = [op |-> "process_candidate",
                    image_urls |-> call.image_urls,
                    url |-> Head(shortlist).image_url,
                    env |-> env,
                    disk |-> disk,
                    rest |-> Tail(shortlist),
                    result |-> process_image_url(Head(shortlist).image_url, env)]
    /\ UNCHANGED <<req, served, now>>
    /\ UNCHANGED tasks

EvalNext ==
    \/ AnalyzeCall
    \/ ProcessCall

EvalSpec == EvalInit /\ [][EvalNext]_vars

----------------------------------------------------------------------------
(* Functions of the processor and of the orchestrator called directly,     *)
(* one call in a behaviour: they keep no state between calls.              *)

(* Sides of the decoded images: around the minimum, around the maximum,    *)
(* and well above it.                                                      *)
Sides ==
    {1, 3, MinImageSize - 1, MinImageSize, MaxDimension - 1, MaxDimension,
     MaxDimension + 1, 2 * MaxDimension, MaxSide}

Modes == {"RGB", "RGBA", "P", "LA", "L"}

ProcessImageCall ==
    /\ pc = "idle"
    /\ call = NoCall
    /\ \E w \in Sides, h \in Sides, mode \in Modes, tie \in {"floor", "ceil"},
          opens \in BOOLEAN :
        LET img == IF opens THEN [Image(w, h, mode) EXCEPT !.tie = tie]
                   ELSE Undecodable
        IN call' = [op |-> "process_image", image |-> img,
                    result |-> process_image(img)]
    /\ UNCHANGED <<pc, req, served, now, cache, persisted, outcome, image_urls,
                   shortlist, blind_left, attempt, strategies, hist>>
    /\ UNCHANGED tasks

(* process_image_url, and the image_url main.py:172-185 would serve.       *)
ProcessUrlCall ==
    /\ pc = "idle"
    /\ call = NoCall
    /\ \E u \in {UserA, ScrapedT, GenericH}, env \in ProcessorAnswers :
        LET processed == process_image_url(u, env) IN
        call' = [op |-> "process_image_url", url |-> u, env |-> env,
                 probe |-> validate_image_suitability(env),
                 result |-> processed,
                 image_url |-> IF processed = <<>> THEN <<>>
                               ELSE IF processed[1].needs_processing
                               THEN <<get_image_url(NextUid, processed[1].format)>>
                               ELSE <<u>>]
    /\ UNCHANGED <<pc, req, served, now, cache, persisted, outcome, image_urls,
                   shortlist, blind_left, attempt, strategies, hist>>
    /\ UNCHANGED tasks

InputTexts ==
    {
      <<"B", "i", "t", "c", "o", "i", "n", " ", "p", "r", "i", "c", "e">>,
      <<"E", "T", "F", " ", "m", "e", "t", "h", "o", "d">>,
      <<"T", "e", "s", "l", "a", " ", "r", "o", "b", "o", "t">>,
      <<"n", "e", "w", " ", "X", "b", "o", "x">>, <<"r", "a", "i", "n">>,
      <<"w", "e", "a", "t", "h", "e", "r">>, <<>>, <<"c", "a", "t", "s">>,
      <<"S", "T", "O", "C", "K">>, <<"M", "e", "t", "a">>
    }

ExtractTopicCall ==
    /\ pc = "idle"
    /\ call = NoCall
    /\ \E title \in InputTexts, research \in InputTexts :
        call' = [op |-> "_extract_topic", title |-> title, research |-> research,
                 result |-> _extract_topic(title, research)]
    /\ UNCHANGED <<pc, req, served, now, cache, persisted, outcome, image_urls,
                   shortlist, blind_left, attempt, strategies, hist>>
    /\ UNCHANGED tasks

(* _determine_tool_used on a URL of a collection: the request may carry    *)
(* both images and a source URL, and the page may show an image of another *)
(* host.                                                                   *)
ToolRequests == Requests \cup {Request(<<"t4">>, <<"r">>, "site", FALSE, <<UserA>>)}

ToolScrapeAnswers == ScrapeAnswers \cup {ChannelOk(<<UserA, ScrapedS>>)}

DetermineToolCall ==
    /\ pc = "idle"
    /\ call = NoCall
    /\ \E r \in ToolRequests, scraped \in ToolScrapeAnswers,
          searched \in SearchAnswers :
       \E u \in Range(collect_all(r, scraped, searched)) :
        call' = [op |-> "_determine_tool_used", request |-> r,
                 user |-> r.images,
                 scraped |-> ScrapedList(r, scraped),
                 searched |-> SearchedList(r, scraped, searched),
                 url |-> u,
                 result |-> _determine_tool_used(u, r)]
    /\ UNCHANGED <<pc, req, served, now, cache, persisted, outcome, image_urls,
                   shortlist, blind_left, attempt, strategies, hist>>
    /\ UNCHANGED tasks

(* Calls of collect_all: user lists short and long, with and without      *)
(* repeated URLs; channels that answer, answer nothing, or fail.           *)
CollectUsers ==
    { <<>>, <<UserA>>, <<UserA, UserA, SearchP, UserA>>,
      [k \in 1..(MinCandidates - 1) |-> InputUrl(k)],
      [k \in 1..MinCandidates |-> InputUrl(k)] }

CollectRequests ==
    {Request(<<"t">>, <<"r">>, src, imgs = <<>>, imgs) :
        src \in {None, "site"}, imgs \in CollectUsers}

CollectScrapeAnswers ==
    ToolScrapeAnswers
    \cup {ChannelOk(<<InputUrl(1), ScrapedS, InputUrl(1)>>),
          ChannelOk([k \in 1..MinCandidates |-> ScrapedS])}

CollectSearchAnswers == SearchAnswers \cup {ChannelFailed}

(* image_collector.py:37-81 *)
CollectCall ==
    /\ pc = "idle"
    /\ call = NoCall
    /\ \E r \in CollectRequests, scraped \in CollectScrapeAnswers,
          searched \in CollectSearchAnswers :
        call' = [op |-> "collect_all", request |-> r,
                 scrape_called |-> Truthy(r.source_url),
                 scrape |-> scraped,
                 search_called |-> SearchNeeded(r, scraped),
                 search |-> searched,
                 user |-> r.images,
                 scraped |-> ScrapedList(r, scraped),
                 searched |-> SearchedList(r, scraped, searched),
                 result |-> collect_all(r, scraped, searched)]
    /\ UNCHANGED <<pc, req, served, now, cache, persisted, outcome, image_urls,
                   shortlist, blind_left, attempt, strategies, hist>>
    /\ UNCHANGED tasks

FuncNext ==
    \/ CollectCall
    \/ ProcessImageCall
    \/ ProcessUrlCall
    \/ ExtractTopicCall
    \/ DetermineToolCall

FuncSpec == Init /\ [][FuncNext]_vars

----------------------------------------------------------------------------
(* Concurrent requests on one CacheManager.  The event loop runs a         *)
(* coroutine until its next await: CacheManager.get has one, the probe of  *)
(* the cached URL (cache_manager.py:74), and set has none.                 *)

ConcRequests ==
    { Request(<<"t1">>, <<"r">>, None, FALSE, <<UserA>>),
      Request(<<"t2">>, <<"r">>, "site", TRUE, <<>>) }

(* The Response the pipeline of caller c returns: the stored file has a    *)
(* name of its own (storage.py: uuid4).                                    *)
ClientResponse(r, c) == [ResponseFor(r) EXCEPT !.image_url = StoredUrl(<<c, 1>>)]

(* cached_data is a reference to the dict the cache holds: the same       *)
(* object as an entry of the cache whatever its "cached" flag has become.  *)
SameEntry(a, b) == [a EXCEPT !.cached = FALSE] = [b EXCEPT !.cached = FALSE]

(* cache_manager.py:56-73: get up to its await. *)
GetBegin(c) ==
    /\ pc = "idle"
    /\ tasks[c].pc = "idle"
    /\ \E r \in ConcRequests :
        LET key == KeyOf(r) IN
        IF key \notin DOMAIN cache
        THEN /\ tasks' = [tasks EXCEPT ![c] = Task("pipeline", r, <<>>, "miss", 0)]
             /\ UNCHANGED <<cache, persisted>>
        ELSE IF Expired(cache[key], now)
        THEN /\ tasks' = [tasks EXCEPT ![c] = Task("pipeline", r, <<>>, "miss", 0)]
             /\ cache' = Without(cache, key)
             /\ persisted' = cache'
        ELSE /\ tasks' = [tasks EXCEPT ![c] =
                            Task("validating", r, <<cache[key]>>, "none", 0)]
             /\ UNCHANGED <<cache, persisted>>
    /\ UNCHANGED <<pc, req, served, now, outcome, image_urls, shortlist,
                   blind_left, attempt, strategies, hist, call>>

(* cache_manager.py:74-81: get after its await.  cached_data is the dict   *)
(* read before the await; "del self._cache[cache_key]" removes whatever    *)
(* the key holds now and raises KeyError when it holds nothing.            *)
GetEnd(c) ==
    /\ pc = "idle"
    /\ tasks[c].pc = "validating"
    /\ \E reachable \in BOOLEAN :
        LET r == tasks[c].request
            key == KeyOf(r)
            cached_data == tasks[c].data[1]
        IN IF reachable
           THEN /\ tasks' = [tasks EXCEPT ![c] = Task("done", r, <<>>, "hit", 0)]
                /\ cache' = IF key \in DOMAIN cache /\ SameEntry(cache[key], cached_data)
                            THEN With(cache, key, [cached_data EXCEPT !.cached = TRUE])
                            ELSE cache
                /\ UNCHANGED persisted
           ELSE IF key \in DOMAIN cache
           THEN /\ tasks' = [tasks EXCEPT ![c] = Task("pipeline", r, <<>>, "miss", 0)]
                /\ cache' = Without(cache, key)
                /\ persisted' = cache'
           ELSE /\ tasks' = [tasks EXCEPT ![c] = Task("done", r, <<>>, "KeyError", 0)]
                /\ UNCHANGED <<cache, persisted>>
    /\ UNCHANGED <<pc, req, served, now, outcome, image_urls, shortlist,
                   blind_left, attempt, strategies, hist, call>>

SetsMade == Cardinality({d \in Clients : tasks[d].set_at > 0})

(* main.py:103-115: the pipeline returned a result and find_image stores   *)
(* it.                                                                     *)
Store(c) ==
    /\ pc = "idle"
    /\ tasks[c].pc = "pipeline"
    /\ cache' = CacheSet(cache, KeyOf(tasks[c].request),
                         ClientResponse(tasks[c].request, c), now)
    /\ persisted' = cache'
    /\ tasks' = [tasks EXCEPT ![c] =
                    Task("done", tasks[c].request, <<>>, "miss", SetsMade + 1)]
    /\ UNCHANGED <<pc, req, served, now, outcome, image_urls, shortlist,
                   blind_left, attempt, strategies, hist, call>>

(* main.py:119-125: the pipeline raised; nothing is stored.                *)
PipelineFails(c) ==
    /\ pc = "idle"
    /\ tasks[c].pc = "pipeline"
    /\ tasks' = [tasks EXCEPT ![c] = Task("done", tasks[c].request, <<>>, "miss", 0)]
    /\ UNCHANGED <<pc, req, served, now, cache, persisted, outcome, image_urls,
                   shortlist, blind_left, attempt, strategies, hist, call>>

ConcNext ==
    \/ \E c \in Clients : GetBegin(c)
    \/ \E c \in Clients : GetEnd(c)
    \/ \E c \in Clients : Store(c)
    \/ \E c \in Clients : PipelineFails(c)
    \/ Tick

ConcSpec == Init /\ [][ConcNext]_vars

(* A step of the request in flight.  Every await of the handler is bounded: *)
(* the cache probe by its own timeout (cache_manager.py:47), the pipeline   *)
(* by asyncio.wait_for (main.py:103-106); so a request in flight always     *)
(* takes its next step.                                                     *)
RequestStep ==
    \/ CacheLookup
    \/ Timeout
    \/ Collect
    \/ EvaluateInitial
    \/ ProcessInitial
    \/ SearchRetry
    \/ EvaluateRetry
    \/ ProcessRetry
    \/ GenericSearch
    \/ GenericEvaluate
    \/ GenericProcess
    \/ BlindProcess

LiveSpec == Spec /\ WF_vars(RequestStep)

----------------------------------------------------------------------------
(* Properties *)

Concluded == pc = "done"

(* The Response the caller received (when it received one).                *)
Body == outcome.body[1]

Succeeded == outcome.kind = "response" /\ outcome.status = HttpOk

Failed == outcome.kind = "error"

RECURSIVE IsPrefix(_, _)
IsPrefix(a, b) ==
    \/ a = <<>>
    \/ b # <<>> /\ Head(a) = Head(b) /\ IsPrefix(Tail(a), Tail(b))

EscalationOrder ==
    <<Strategy("initial", 0), Strategy("search", 1), Strategy("search", 2),
      Strategy("generic", 1), Strategy("generic", 2), Strategy("exhausted", 0)>>

(* The strategies started, the blind loops inside generic attempts left    *)
(* out.                                                                    *)
Escalation ==
    FilterSeq(strategies, {st \in Range(strategies) : st.name # "blind"})

(* C1: on a cache miss, when the initial pass processes a user-supplied    *)
(* image successfully and its file is written, the request ends with HTTP  *)
(* 200 and a Response tagged "candidate", found, not cached.               *)
C1_CandidateServed ==
    (/\ Concluded
     /\ hist.ended = "initial"
     /\ hist.ok_url \in Range(req.images)
     /\ hist.saves = 1)
    => /\ Succeeded
       /\ Body.tool_used = "candidate"
       /\ Body.image_found = TRUE
       /\ Body.cached = FALSE

(* C2: when the collector returns nothing on a cache miss, the request     *)
(* ends with HTTP 200 and the default-image Response, and no evaluation,   *)
(* processing, retry or generic attempt was made.                          *)
C2_DefaultServed ==
    (Concluded /\ hist.ended = "default")
    => /\ Succeeded
       /\ Body.tool_used = "default"
       /\ Body.image_url = DefaultFallbackImage
       /\ hist.evaluations = 0
       /\ ~Ok(hist)
       /\ strategies = <<Strategy("initial", 0)>>

(* C3: a request whose pipeline exceeded the total timeout ends with HTTP  *)
(* 504 and a timeout message.                                              *)
C3_TimeoutIs504 ==
    (Concluded /\ hist.ended = "timeout")
    => /\ Failed
       /\ outcome.status = HttpGatewayTimeout
       /\ outcome.status # HttpInternalError
       /\ "Request timeout" \in Range(outcome.detail)

(* C4: the strategies of a request follow the escalation order, none is    *)
(* revisited, and none starts after a candidate was processed              *)
(* successfully.                                                           *)
C4_EscalationOrder ==
    /\ IsPrefix(Escalation, EscalationOrder)
    /\ ~hist.restarted

(* C5: after process_image_url returned a result no further search,        *)
(* evaluation or processing call is made, and the request ends with a      *)
(* Response for that candidate.                                            *)
C5_FirstSuccessEnds ==
    /\ ~hist.late
    /\ (Concluded /\ Ok(hist) /\ hist.ended # "timeout")
       => /\ Succeeded
          /\ Body.original_url = hist.ok_url

(* C6: a request that ends on the cache hit found an entry at most seven   *)
(* days old, returns that entry as its Response with cached = true, and    *)
(* made no collection, evaluation, processing or storage call.             *)
C6_CacheHit ==
    (Concluded /\ hist.ended = "hit")
    => /\ KeyOf(req) \in DOMAIN hist.cache_before
       /\ now - hist.cache_before[KeyOf(req)].cached_at <= CacheMaxAgeDays
       /\ outcome = ResponseOutcome(
            [f \in ResponseFields |->
                IF f = "cached" THEN TRUE ELSE hist.cache_before[KeyOf(req)][f]])
       /\ strategies = <<>>
       /\ hist.searches = 0
       /\ hist.evaluations = 0
       /\ ~Ok(hist)
       /\ hist.saves = 0

C6_Witness ==
    /\ Concluded
    /\ hist.ended = "hit"
    /\ Succeeded
    /\ Body.cached = TRUE
    /\ now - hist.cache_before[KeyOf(req)].cached_at = CacheMaxAgeDays

(* C7 as stated: a cache-miss request that ends with a Response has stored *)
(* it under its fingerprint, and a request that ends in an error leaves    *)
(* the cache as it found it.                                               *)
C7_ErrorLeavesCache ==
    (Concluded /\ hist.ended # "hit")
    => IF Succeeded
       THEN /\ KeyOf(req) \in DOMAIN cache
            /\ cache[KeyOf(req)] = CacheEntry(Body, now)
       ELSE cache = hist.cache_before

(* C7, amended: a cache-miss request that ends with a Response has stored  *)
(* it under its fingerprint (and the caching step stores any Response the  *)
(* pipeline hands it); a request that ends in an error has stored or       *)
(* altered no entry: the cache is as the request found it, but for the     *)
(* entry of its own fingerprint when the lookup evicted it.                *)
C7_ErrorStoresNothing ==
    (Concluded /\ hist.ended # "hit")
    => /\ CacheAfterPipeline(cache, KeyOf(req),
                             Returned(SeedResponse(UserA, "candidate")), now)
            = With(cache, KeyOf(req),
                   CacheEntry(SeedResponse(UserA, "candidate"), now))
       /\ IF Succeeded
          THEN /\ KeyOf(req) \in DOMAIN cache
               /\ cache[KeyOf(req)] = CacheEntry(Body, now)
               /\ persisted = cache
          ELSE cache \in {hist.cache_before,
                          Without(hist.cache_before, KeyOf(req))}

C7_Witness ==
    /\ Concluded
    /\ Failed
    /\ hist.ended \in {"timeout", "exhausted", "initial", "default"}
    /\ KeyOf(req) \in DOMAIN hist.cache_before
    /\ cache = Without(hist.cache_before, KeyOf(req))

(* C8: a generic attempt's shortlist holds every evaluated image that      *)
(* passes the filter at the floor of 6.                                    *)
C8_RelaxedFloor == hist.note # "relaxed_dropped"

(* C9: when the AI call of a generic attempt's evaluation raises a quota   *)
(* error, the attempt goes on in the blind loop over the raw results.      *)
C9_QuotaGoesBlind ==
    hist.note = "quota_error" => pc = "blind_process" /\ blind_left # <<>>

C11_GenericSecondAttempt ==
    (/\ Concluded
     /\ ~Truthy(req.source_url)
     /\ req.images = <<>>
     /\ hist.ended = "default")
    => /\ Strategy("generic", MaxGenericAttempts) \in Range(strategies)
       /\ Succeeded
       /\ Body.tool_used = "fallback (perplexity)"
       /\ Body.image_found = TRUE

C14_OneOutcome ==
    /\ (pc = "cache_get") ~> (Concluded /\ outcome.kind \in {"response", "error"})
    /\ [](Concluded <=> outcome.kind # "none")
    /\ [][outcome.kind # "none" => outcome' \in {outcome, NoOutcome}]_vars

C14_Witness ==
    /\ Concluded
    /\ Failed
    /\ hist.ended = "timeout"
    /\ Strategy("generic", MaxGenericAttempts) \in Range(strategies)

(* The Response fields of a cache entry.                                   *)
ResponseOf(entry) == [f \in ResponseFields |-> entry[f]]

(* C15: a get made with the arguments of an earlier set, while the entry   *)
(* is at most seven days old and its image URL is reachable, is a hit and  *)
(* returns the Response fields that were stored, with cached = true.       *)
C15_RoundTrip ==
    (/\ call.op = "get"
     /\ call.present
     /\ call.reachable
     /\ call.age <= CacheMaxAgeDays)
    => /\ call.hit
       /\ ResponseOf(call.result[1])
            = [ResponseFor(call.args) EXCEPT !.cached = TRUE]
       /\ call.result[1].cached_at = now - call.age

C15_Witness ==
    /\ call.op = "get"
    /\ call.hit
    /\ call.age = CacheMaxAgeDays
    /\ call.result[1].cached = TRUE
    /\ call.result[1].original_url = UserA

(* C16: the key a call of get or set computes for its arguments is the    *)
(* key of another request if and only if that request has the same title,  *)
(* research, source_url and images.                                        *)
C16_KeyInjective ==
    call.op \in {"get", "set"}
    => \A b \in CacheRequests :
         (KeyOf(b) = call.key) <=> (b = call.args)

(* C17: a get that finds its entry more than seven days old reports a miss *)
(* and leaves neither the in-memory cache nor the cache file with an entry *)
(* under that key.                                                         *)
C17_StaleEvicted ==
    (/\ call.op = "get"
     /\ call.present
     /\ call.age > CacheMaxAgeDays)
    => /\ ~call.hit
       /\ call.result = <<>>
       /\ call.key \notin DOMAIN cache
       /\ call.key \notin DOMAIN persisted

C17_Witness ==
    /\ call.op = "get"
    /\ call.present
    /\ call.reachable
    /\ call.age = CacheMaxAgeDays + 1
    /\ ~call.hit
    /\ call.key \notin DOMAIN cache

(* C18: a get that finds its entry stale or its image URL unreachable      *)
(* reports a miss and removes that entry and no other; every other entry   *)
(* is as it was; a get is a hit only when the entry is at most seven days  *)
(* old and its image URL is reachable.                                     *)
C18_EvictsOnlyItsEntry ==
    [][(call'.op = "get" /\ call' # call)
       => /\ \A k \in DOMAIN cache \ {call'.key} :
                k \in DOMAIN cache' /\ cache'[k] = cache[k]
          /\ DOMAIN cache' \subseteq DOMAIN cache
          /\ (call'.present /\ (call'.age > CacheMaxAgeDays \/ ~call'.reachable))
             => /\ ~call'.hit
                /\ DOMAIN cache' = DOMAIN cache \ {call'.key}
          /\ call'.hit
             => /\ call'.present
                /\ call'.age <= CacheMaxAgeDays
                /\ call'.reachable
                /\ DOMAIN cache' = DOMAIN cache]_vars

C18_Witness ==
    /\ call.op = "get"
    /\ call.present
    /\ ~call.reachable
    /\ call.age <= CacheMaxAgeDays
    /\ ~call.hit
    /\ call.key \notin DOMAIN cache
    /\ Cardinality(DOMAIN cache) >= 2

(* The place of the first occurrence of u in l.                            *)
FirstIndex(l, u) ==
    CHOOSE i \in 1..Len(l) : l[i] = u /\ \A k \in 1..(i - 1) : l[k] # u

(* C19: the list collect_all returns holds every URL of the user-supplied, *)
(* scraped and searched lists, each exactly once, in the order of their    *)
(* first occurrences in the concatenation user-supplied, scraped,          *)
(* searched.                                                               *)
C19_Dedup ==
    call.op = "collect_all"
    => LET all == call.user \o call.scraped \o call.searched
           out == call.result
       IN /\ Range(out) = Range(all)
          /\ \A i \in 1..Len(out) : \A j \in 1..Len(out) :
                /\ i # j => out[i] # out[j]
                /\ i < j => FirstIndex(all, out[i]) < FirstIndex(all, out[j])

C19_Witness ==
    /\ call.op = "collect_all"
    /\ Range(call.scraped) \cap Range(call.searched) # {}
    /\ Len(call.searched) > Cardinality(Range(call.searched))
    /\ Len(call.result) = 3
    /\ Len(call.user \o call.scraped \o call.searched) = 5
    /\ image_urls = call.result

(* C20: no evaluation the evaluator returned has a heavy watermark, an     *)
(* intrusive advertisement, a relevance_score below the floor the filter   *)
(* ran with, is_relevant_to_event false or contains_outdated_info true.    *)
C20_FilterInvariant ==
    \A i \in 1..Len(shortlist) :
        /\ shortlist[i].watermark_severity # "heavy"
        /\ shortlist[i].ad_presence # "intrusive"
        /\ shortlist[i].relevance_score >= DefaultMinRelevance
        /\ shortlist[i].is_relevant_to_event
        /\ ~shortlist[i].contains_outdated_info

C20_Witness ==
    /\ pc = "generic_process"
    /\ hist.note = "relaxed_dropped"
    /\ Len(shortlist) = 1
    /\ shortlist[1].relevance_score = DefaultMinRelevance

(* The pair an evaluation is ranked by.                                    *)
RankAtLeast(a, b) ==
    \/ a.relevance_score > b.relevance_score
    \/ /\ a.relevance_score = b.relevance_score
       /\ QualityOrder(a.content_quality) >= QualityOrder(b.content_quality)

Ranked(l) ==
    \A i \in 1..Len(l) : \A j \in 1..Len(l) : i < j => RankAtLeast(l[i], l[j])

(* C21: the list the evaluator returns is sorted non-increasing by the     *)
(* pair (relevance_score, quality tier), it stays so under the generic     *)
(* stage's relaxed filter and sort, and each turn of the processing loop   *)
(* tries the head of what is left of it: the loop either goes on with the  *)
(* tail, ends the request with the head as the image processed, or leaves  *)
(* the stage when the head was the last one.                               *)
C21_SortedTriedInOrder ==
    /\ [](/\ Ranked(shortlist)
          /\ call.op = "analyze_images" /\ call.outcome.ok
             => /\ Ranked(call.outcome.value[1])
                /\ Ranked(relaxed_evals(call.outcome.value[1])))
    /\ [][pc = "process"
          => \/ /\ pc' = "process"
                /\ shortlist' = Tail(shortlist)
                /\ hist'.ok_url = hist.ok_url
             \/ /\ pc' = "done"
                /\ hist'.ok_url = shortlist[1].image_url
             \/ /\ pc' = "search"
                /\ Tail(shortlist) = <<>>
                /\ hist'.ok_url = hist.ok_url]_vars

C21_Witness ==
    /\ pc = "process"
    /\ call.op = "analyze_images"
    /\ call.submitted = <<UserA, SearchP>>
    /\ call.answer.text =
          Plain(<<Item(0, 9, "none", "none", "low", TRUE, FALSE),
                  Item(1, 9, "none", "none", "high", TRUE, FALSE)>>)
    /\ Len(shortlist) = 2
    /\ shortlist[1].image_url = SearchP
    /\ shortlist[2].image_url = UserA

(* C22: a call of analyze_images never raises to its caller, and returns   *)
(* the empty list when the AI call raised or its response was not a JSON   *)
(* array.                                                                  *)
C22_NeverRaises ==
    call.op = "analyze_images"
    => /\ call.outcome.ok
       /\ \/ call.answer.kind = "raises"
          \/ json_loads(StripFence(call.answer.text)) = <<>>
          => call.outcome.value = <<<<>>>>

(* C23: when the header-only probe reports the candidate as compliant,     *)
(* process_image_url returns needs_processing = false without download or  *)
(* re-encoding, and the image_url served is the original URL.              *)
C23_FastPath ==
    call.op = "process_image_url" /\ call.env.suit = "image"
    => /\ call.result # <<>>
       /\ ~call.result[1].needs_processing
       /\ call.image_url = <<call.url>>

(* C24: _extract_topic returns the first category of the table, in the     *)
(* order cryptocurrency, artificial intelligence, robotics, finance,       *)
(* technology, social media, gaming, automotive, that has a keyword        *)
(* occurring in the lowercased "title research"; a text with "bitcoin" in  *)
(* it gives "cryptocurrency", a text with no keyword gives "technology".   *)
C24_FirstCategoryWins ==
    call.op = "_extract_topic"
    => LET text == Lower(call.title \o <<" ">> \o call.research)
           order == <<"cryptocurrency", "artificial intelligence", "robotics",
                      "finance", "technology", "social media", "gaming",
                      "automotive">>
           has(c) == \E i \in 1..Len(topic_map) :
                        topic_map[i].category = c /\ Matches(topic_map[i], text)
       IN /\ (\E k \in 1..Len(order) : has(order[k]))
             => \E k \in 1..Len(order) :
                  /\ call.result = order[k]
                  /\ has(order[k])
                  /\ \A j \in 1..(k - 1) : ~has(order[j])
          /\ Contains(text, <<"b", "i", "t", "c", "o", "i", "n">>)
             => call.result = "cryptocurrency"
          /\ (\A k \in 1..Len(order) : ~has(order[k]))
             => call.result = "technology"
          /\ [i \in 1..Len(topic_map) |-> topic_map[i].category] = order

C24_Witness ==
    /\ call.op = "_extract_topic"
    /\ call.title = <<"T", "e", "s", "l", "a", " ", "r", "o", "b", "o", "t">>
    /\ call.research = <<"S", "T", "O", "C", "K">>
    /\ call.result = "robotics"

(* C25: process_image rejects a decoded image with both sides below the    *)
(* minimum size; otherwise it returns an image whose larger side is at     *)
(* most max_dimension, encoded as JPEG unless the mode is RGBA; an image   *)
(* with a side above max_dimension keeps its aspect ratio up to the        *)
(* rounding of one side to an integer, an image within it keeps its size.  *)
C25_ResizeAndEncode ==
    call.op = "process_image" /\ call.image.opens
    => LET w == call.image.width
           h == call.image.height
           r == call.result
       IN IF w < MinImageSize /\ h < MinImageSize THEN r = <<>>
          ELSE /\ r # <<>>
               /\ Max(r[1].width, r[1].height) <= MaxDimension
               /\ r[1].width >= 1 /\ r[1].height >= 1
               /\ (r[1].format = "jpeg") <=> (call.image.mode # "RGBA")
               /\ IF w > MaxDimension \/ h > MaxDimension
                  THEN /\ Max(r[1].width, r[1].height) = MaxDimension
                       /\ Abs(r[1].width * h - r[1].height * w) < Max(w, h)
                  ELSE r[1].width = w /\ r[1].height = h

C25_Witness ==
    /\ call.op = "process_image"
    /\ call.image.width = 2 * MaxDimension
    /\ call.image.height = MaxDimension - 1
    /\ call.image.mode = "P"
    /\ call.result # <<>>
    /\ call.result[1].format = "jpeg"
    /\ call.result[1].dimensions = "1280x640"

(* C26: a URL of the collection is tagged by the channel that produced it: *)
(* "candidate" when the user supplied it, whatever other channel also      *)
(* gave it, "site" when only the page scrape gave it, "perplexity" when    *)
(* only the search gave it.                                                *)
C26_TagByChannel ==
    call.op = "_determine_tool_used"
    => LET user == call.url \in Range(call.user)
           scraped == call.url \in Range(call.scraped)
           searched == call.url \in Range(call.searched)
       IN /\ user => call.result = "candidate"
          /\ ~user /\ scraped /\ ~searched => call.result = "site"
          /\ ~user /\ ~scraped /\ searched => call.result = "perplexity"

ParseFailure(text, urls) ==
    LET data == json_loads(StripFence(text)) IN
    \/ data = <<>>
    \/ \E i \in 1..Len(data[1]) :
          /\ (IF data[1][i].has_index THEN data[1][i].image_index ELSE 0) < Len(urls)
          /\ data[1][i].relevance_score \notin ScoreMin..ScoreMax

(* C28: a response whose parse fails gives the empty list, never the       *)
(* entries parsed before the failure, and a response wrapped in a          *)
(* markdown fence gives what the text inside the fence gives.              *)
C28_FailureYieldsEmpty ==
    (call.op = "analyze_images" /\ call.answer.kind = "text"
        /\ call.submitted # <<>>)
    => LET text == call.answer.text
           parsed == _parse_evaluations(call.answer, call.submitted)
       IN /\ ParseFailure(text, call.submitted) => parsed = <<>>
          /\ (Len(text) = 3 /\ text[1].kind = "fence" /\ text[3].kind = "fence")
             => parsed = _parse_evaluations(Responds(<<text[2]>>), call.submitted)

(* C29: the evaluation made from entry k of the response array is          *)
(* attached to submitted URL k, whatever image_index the entry carries or  *)
(* omits.                                                                  *)
C29_AttachedByPosition ==
    (call.op = "analyze_images" /\ call.answer.kind = "text"
        /\ call.submitted # <<>>)
    => LET data == json_loads(StripFence(call.answer.text))
           parsed == _parse_evaluations(call.answer, call.submitted)
       IN (data # <<>> /\ Len(data[1]) = Len(call.submitted)
              /\ ~ParseFailure(call.answer.text, call.submitted))
          => /\ Len(parsed) = Len(call.submitted)
             /\ \A k \in 1..Len(parsed) :
                   /\ parsed[k].image_url = call.submitted[k]
                   /\ parsed[k].relevance_score = data[1][k].relevance_score
                   /\ parsed[k].content_quality = data[1][k].content_quality

(* Positions of a candidate list that may be submitted: a supported        *)
(* extension, among the first MaxProbed such positions, and reachable.     *)
Eligible(urls, reachable) ==
    {i \in 1..Len(urls) :
        /\ urls[i].ext \in SupportedExtensions
        /\ Cardinality({j \in 1..i : urls[j].ext \in SupportedExtensions}) <= MaxProbed
        /\ urls[i] \in reachable}

(* C30: an AI evaluation call receives at most 5 URLs: the first 5, in     *)
(* input order, of the reachable URLs among the first 20 URLs with a       *)
(* supported extension.                                                    *)
C30_AtMostFiveSubmitted ==
    (call.op = "analyze_images" /\ call.outcome.ok)
    => LET sub == call.submitted
           urls == call.image_urls
           E == Eligible(urls, call.reachable)
       IN /\ Len(sub) <= MaxAnalyzed
          /\ Len(sub) = (IF Cardinality(E) < MaxAnalyzed THEN Cardinality(E)
                         ELSE MaxAnalyzed)
          /\ \A k \in 1..Len(sub) :
                \E i \in E : /\ Cardinality({j \in E : j <= i}) = k
                             /\ sub[k] = urls[i]

(* A call with more supported URLs than are probed, all of them reachable, *)
(* among them one with an unsupported extension: five are submitted.       *)
C30_Witness ==
    /\ call.op = "analyze_images"
    /\ call.outcome.ok
    /\ Len(call.image_urls) > MaxProbed + 1
    /\ call.image_urls[Len(call.image_urls)] \in call.reachable
    /\ \E u \in call.reachable : u.ext \notin SupportedExtensions
    /\ Cardinality(call.reachable) > MaxAnalyzed + 1
    /\ Len(call.submitted) = MaxAnalyzed

(* What a channel of a call of collect_all contributed: its answer when    *)
(* it was called and did not fail.                                         *)
Contribution(called, answer) ==
    IF called /\ ~answer.failed THEN answer.images ELSE <<>>

(* C31: collect_all returns the user-supplied, then the scraped, then the  *)
(* searched candidates, first occurrences in that order, and the search    *)
(* channel is called if and only if the user-supplied and scraped          *)
(* candidates, counted with their duplicates, are fewer than 5.            *)
C31_PriorityAndSearchRule ==
    call.op = "collect_all"
    => LET user == call.request.images
           sc == Contribution(call.scrape_called, call.scrape)
           se == Contribution(call.search_called, call.search)
           all == user \o sc \o se
           res == call.result
       IN /\ call.scrape_called <=> Truthy(call.request.source_url)
          /\ call.search_called <=> (Len(user) + Len(sc) < MinCandidates)
          /\ Range(res) = Range(all)
          /\ \A i, j \in 1..Len(res) :
                i < j => FirstIndex(all, res[i]) < FirstIndex(all, res[j])

(* Five candidates gathered, fewer than five distinct: no search.          *)
C31_Witness ==
    /\ call.op = "collect_all"
    /\ call.user # <<>>
    /\ call.scraped # <<>>
    /\ ~call.search_called
    /\ Len(call.result) < MinCandidates

(* C32: a channel of collect_all that times out or raises contributes      *)
(* nothing and takes nothing away: the user-supplied candidates and the    *)
(* other channel's answer are returned, and the search channel runs after  *)
(* a failed scrape whenever fewer than 5 candidates were supplied.         *)
C32_ChannelFailureIsolated ==
    call.op = "collect_all"
    => LET user == call.request.images
           res == call.result
       IN /\ Range(user) \subseteq Range(res)
          /\ (call.scrape_called /\ call.scrape.failed)
             => /\ call.search_called <=> (Len(user) < MinCandidates)
                /\ (call.search_called /\ ~call.search.failed)
                   => Range(res) = Range(user) \cup Range(call.search.images)
                /\ (call.search_called /\ call.search.failed)
                   => Range(res) = Range(user)
          /\ (call.search_called /\ call.search.failed)
             => Range(res) = Range(user)
                    \cup Range(Contribution(call.scrape_called, call.scrape))

(* The scrape failed and the search answered: its images are returned      *)
(* after the user's.                                                       *)
C32_Witness ==
    /\ call.op = "collect_all"
    /\ call.scrape_called
    /\ call.scrape.failed
    /\ call.user # <<>>
    /\ call.search_called
    /\ call.searched # <<>>
    /\ Range(call.searched) \subseteq Range(call.result)
    /\ call.result[1] = call.user[1]

(* What makes a candidate fail in process_image_url: its URL does not      *)
(* answer as an image, its download fails, its data does not decode, or    *)
(* the image is below the minimum size.                                    *)
CandidateFails(u, env) ==
    \/ env.head = "fail"
    \/ env.head = "other" /\ u.ext \notin ImageExtensions
    \/ ~env.download
    \/ ~env.decoded.opens
    \/ env.decoded.width < MinImageSize /\ env.decoded.height < MinImageSize

(* C33: a candidate whose validation, download, decoding or processing     *)
(* fails gives no result and no exception, and the request goes on with    *)
(* the next candidate of the shortlist (with the first search retry after  *)
(* the last one) instead of ending.                                        *)
C33_FailureTriesNext ==
    call.op = "process_candidate"
    => /\ CandidateFails(call.url, call.env) <=> call.result = <<>>
       /\ call.result = <<>>
          => /\ outcome = NoOutcome
             /\ IF call.rest # <<>>
                THEN pc = "process" /\ shortlist = call.rest
                ELSE pc = "search"

(* The first candidate's data did not decode; the second is next.          *)
C33_Witness ==
    /\ call.op = "process_candidate"
    /\ call.env.download
    /\ ~call.env.decoded.opens
    /\ call.result = <<>>
    /\ pc = "process"
    /\ shortlist # <<>>
    /\ shortlist = call.rest

(* C34: after every completed get or set the persisted cache equals the    *)
(* mapping in memory.                                                      *)
C34_PersistedEqualsMemory ==
    call.op \in {"get", "set"} => persisted = cache

(* C35: within one request no specific search uses the phrasing of the     *)
(* specific search made just before it.                                    *)
C35_NoQueryRepeated ==
    \A i \in 1..(Len(hist.queries) - 1) : hist.queries[i] # hist.queries[i + 1]

(* The tags a Response may carry, by the place where the request ended.    *)
TagsAt(site) ==
    CASE site = "default" -> {"default"}
      [] site = "initial" -> {"candidate", "site", "perplexity"}
      [] site = "retry" -> {"perplexity"}
      [] site \in {"generic", "blind"} -> {"fallback (perplexity)"}
      [] OTHER -> {}

C37_GetNeverRaises ==
    /\ \A c \in Clients : tasks[c].got # "KeyError"
    /\ \A c \in Clients :
          (tasks[c].pc \in {"pipeline", "done"} /\ tasks[c].got = "miss"
              /\ SetsMade = 0)
          => KeyOf(tasks[c].request) \notin DOMAIN cache

(* C38: a request writes at most one file to storage, and only when it     *)
(* ends with a Response whose image_url names that file.                   *)
C38_OneFileReferenced ==
    /\ hist.saves <= 1
    /\ hist.saves > 0
       => /\ Concluded
          /\ Succeeded
          /\ Body.image_url.host = PublicHost
          /\ Body.image_url.uid = <<served, hist.saves>>

(* C39: a request makes at most 5 calls of the search provider (one in     *)
(* the collector, one per search retry, one per generic attempt) and at    *)
(* most 5 calls of analyze_images (the initial one, one per search retry,  *)
(* one per generic attempt).                                               *)
C39_CallsBounded ==
    /\ hist.searches <= 1 + MaxPerplexityAttempts + MaxGenericAttempts
    /\ hist.evaluations <= 1 + MaxPerplexityAttempts + MaxGenericAttempts
    /\ Len(hist.queries) <= 1 + MaxPerplexityAttempts

(* A request that made all of them.                                        *)
C39_Witness ==
    /\ Concluded
    /\ hist.ended = "exhausted"
    /\ hist.searches = 1 + MaxPerplexityAttempts + MaxGenericAttempts
    /\ hist.evaluations = 1 + MaxPerplexityAttempts + MaxGenericAttempts

====
